---- MODULE Spec2Model ----
(***************************************************************************)
(* Sector/portal raycasting engine (src/helpers.cpp, src/main.cpp) and its *)
(* grid map editor (src/editor/edit.cpp).                                  *)
(*                                                                         *)
(* Numbers.  The engine's doubles are modelled as fixed-point integers:    *)
(* a world coordinate or distance c is the integer c * FIX (FIX = 100, so  *)
(* one unit is 0.01 world units).  Comparisons that the code makes on      *)
(* quotients or square roots are made exactly, by cross-multiplication.    *)
(* Floating-point rounding is not modelled.                                *)
(*                                                                         *)
(* Map files.  A file is a sequence of lines and a line is a sequence of   *)
(* tokens: a numeral (k = "n", integer valued), a non-numeric word         *)
(* (k = "w") or a '#' that starts the line (k = "#").                      *)
(***************************************************************************)
EXTENDS Integers, Sequences, FiniteSets, TLC

VARIABLES
    sectors,     \* helpers.cpp:30  the engine's vector<Sector>
    engErr,      \* what the last loadMapFromFile wrote to cerr ("" = nothing)
    edSectors,   \* edit.cpp:31     the editor's vector<Sector>
    edRet,       \* return value of the last loadMap
    edErr,       \* what the last loadMap wrote to cerr
    disk,        \* the file written by the last saveMap (NoFile before)
    savedSectors, \* history: the editor collection that file was written from
    lastOp,      \* history: the last operation, its input file, the collections before it
    posX, posY,  \* helpers.cpp:32  player position
    dirX, dirY,  \* helpers.cpp:33  view direction, in 1/ANG
    planeX, planeY,  \* helpers.cpp:34  camera plane, in 1/ANG
    rot,         \* history: net number of rotSpeed turns made (A minus D)
    lastMove,    \* history: the last movement input and the position before it
    col,         \* renderFrame's per-column state (main.cpp:21-92)
    geo,         \* one call of a geometry function: its arguments and its result
    currentWallPoints, \* edit.cpp:32  the editor's outline being drawn
    drawSectors,       \* test.cpp:33  the drawing tool's vector<Sector> sectors
    currentVertices,   \* test.cpp:34
    currentSectorId,   \* test.cpp:35
    sectorClosed       \* test.cpp:219 (a local of main)

vars == <<sectors, engErr, edSectors, edRet, edErr, disk, savedSectors, lastOp,
          posX, posY, dirX, dirY, planeX, planeY, rot, lastMove, col, geo, currentWallPoints,
          drawSectors, currentVertices, currentSectorId, sectorClosed>>

----------------------------------------------------------------------------
(* Units and program constants *)

\* fixed-point units per world unit (the doubles of struct Wall, helpers.h:10)
FIX == 100
\* helpers.cpp:106  COLLISION_RADIUS = 0.1
COLLISION_RADIUS == 10
\* main.cpp:126  moveSpeed = 0.2
moveSpeed == 20
\* main.cpp:29
MAX_PORTAL_DEPTH == 10
\* edit.cpp:10
GRID_SIZE == 32
\* main.cpp:11-12
SCREEN_WIDTH == 1080
SCREEN_HEIGHT == 720

\* values an uninitialised local can hold when operator>> did not store into it
Indet == {0, 1}

----------------------------------------------------------------------------
(* Map files *)

Num(v) == [k |-> "n", v |-> v]
Nums(s) == [i \in DOMAIN s |-> Num(s[i])]
Word == [k |-> "w", v |-> 0]
Hash == [k |-> "#", v |-> 0]

File(ls, nl) == [exists |-> TRUE, lines |-> ls, nl |-> nl]
NoFile == [exists |-> FALSE, lines |-> <<>>, nl |-> TRUE]

\* std::getline on an ifstream.  st = [i, eof, line]: next line, whether
\* eofbit/failbit is set, and the caller's string.  A stream that is already at
\* eof fails in the sentry and leaves the string alone; a good stream with
\* nothing left erases the string and then fails; reading a last line that has
\* no newline succeeds and sets eofbit.
GetLine(f, st) ==
    IF st.eof
    THEN [ok |-> FALSE, i |-> st.i, eof |-> TRUE, line |-> st.line]
    ELSE IF st.i > Len(f.lines)
    THEN [ok |-> FALSE, i |-> st.i, eof |-> TRUE, line |-> <<>>]
    ELSE [ok |-> TRUE, i |-> st.i + 1,
          eof |-> (st.i = Len(f.lines) /\ ~f.nl), line |-> f.lines[st.i]]

\* A chain of n operator>> extractions of numbers: how many succeed.
RECURSIVE Parsed(_, _)
Parsed(line, n) ==
    IF n = 0 \/ line = <<>> THEN 0
    ELSE IF Head(line).k # "n" THEN 0
    ELSE 1 + Parsed(Tail(line), n - 1)

\* The value left in the j-th variable of such a chain: the numeral when its
\* extraction succeeded, 0 for the extraction that failed (operator>> stores 0),
\* and an indeterminate value g for the variables after it, never written.
Extracted(line, n, j, g) ==
    LET k == Parsed(line, n) IN
    IF j <= k THEN line[j].v ELSE IF j = k + 1 THEN 0 ELSE g

----------------------------------------------------------------------------
(* The engine's loader, helpers.cpp:124-159 *)

\* helpers.cpp:147-151: six extractions, none checked; coordinates are doubles.
EngParseWall(line, g) ==
    [x1 |-> Extracted(line, 6, 1, g) * FIX,
     y1 |-> Extracted(line, 6, 2, g) * FIX,
     x2 |-> Extracted(line, 6, 3, g) * FIX,
     y2 |-> Extracted(line, 6, 4, g) * FIX,
     isPortal |-> Extracted(line, 6, 5, g) # 0,
     adjoiningSector |-> Extracted(line, 6, 6, g)]

\* helpers.cpp:145-153: the wall loop; getline's result is not looked at.
RECURSIVE EngWalls(_, _, _, _, _)
EngWalls(f, st, n, walls, g) ==
    IF n <= 0 THEN [st |-> st, walls |-> walls]
    ELSE LET r == GetLine(f, st)
         IN  EngWalls(f, r, n - 1, Append(walls, EngParseWall(r.line, g)), g)

\* helpers.cpp:133-156: the record loop.
RECURSIVE EngRecords(_, _, _, _)
EngRecords(f, st, acc, g) ==
    LET r == GetLine(f, st) IN
    IF ~r.ok THEN acc
    ELSE IF r.line = <<>> \/ Head(r.line).k = "#" THEN EngRecords(f, r, acc, g)
    ELSE IF Parsed(r.line, 4) < 4 THEN EngRecords(f, r, acc, g)
    ELSE LET w == EngWalls(f, r, r.line[2].v, <<>>, g)
             sector == [walls |-> w.walls,
                        floorHeight |-> r.line[3].v * FIX,
                        ceilingHeight |-> r.line[4].v * FIX]
         IN  EngRecords(f, w.st, Append(acc, sector), g)

StreamStart == [i |-> 1, eof |-> FALSE, line |-> <<>>]

\* a loader that clears the collection before it looks at the stream
loadMapFromFile_clearFirst(f, prev, g) ==
    IF ~f.exists THEN [sectors |-> <<>>, err |-> "Failed to open"]
    ELSE [sectors |-> EngRecords(f, StreamStart, <<>>, g), err |-> ""]

\* loadMapFromFile(filename) on the collection prev: the collection it leaves in
\* `sectors` and what it writes to cerr.
loadMapFromFile(f, prev, g) ==
    IF ~f.exists THEN [sectors |-> prev, err |-> "Failed to open"]
    ELSE [sectors |-> EngRecords(f, StreamStart, <<>>, g), err |-> ""]

----------------------------------------------------------------------------
(* The editor's loader and writer, edit.cpp:77-155 *)

\* C++ integer division truncates toward zero
CDiv(a, b) == IF a >= 0 THEN a \div b ELSE -((-a) \div b)

\* operator<< of a float: six significant digits (the default precision),
\* round-half-even; the numeral printed for the value h
RECURSIVE Unit6(_)
Unit6(h) == IF h < 1000000 THEN 1 ELSE 10 * Unit6(h \div 10)

FormatFloat(h) ==
    LET a == IF h < 0 THEN -h ELSE h
        u == Unit6(a)
        q == a \div u
        r == a % u
        up == 2 * r > u \/ (2 * r = u /\ q % 2 = 1)
        m == (IF up THEN q + 1 ELSE q) * u
    IN  IF h < 0 THEN -m ELSE m

\* edit.cpp:133-145
EdParseWall(line) ==
    [p1 |-> [x |-> line[1].v * GRID_SIZE, y |-> line[2].v * GRID_SIZE],
     p2 |-> [x |-> line[3].v * GRID_SIZE, y |-> line[4].v * GRID_SIZE],
     isPortal |-> line[5].v # 0,
     adjoiningSector |-> line[6].v]

\* edit.cpp:128-146
RECURSIVE EdWalls(_, _, _, _)
EdWalls(f, st, n, walls) ==
    IF n <= 0 THEN [ok |-> TRUE, st |-> st, walls |-> walls, err |-> ""]
    ELSE LET r == GetLine(f, st) IN
         IF ~r.ok
         THEN [ok |-> FALSE, st |-> r, walls |-> walls,
               err |-> "Unexpected EOF reading walls"]
         ELSE IF Parsed(r.line, 6) < 6
         THEN [ok |-> FALSE, st |-> r, walls |-> walls, err |-> "Malformed wall line"]
         ELSE EdWalls(f, r, n - 1, Append(walls, EdParseWall(r.line)))

\* edit.cpp:113-150; line 149 reads one more line after the walls, whatever it is
RECURSIVE EdRecords(_, _, _)
EdRecords(f, st, acc) ==
    LET r == GetLine(f, st) IN
    IF ~r.ok THEN [ret |-> TRUE, sectors |-> acc, err |-> ""]
    ELSE IF r.line = <<>> THEN EdRecords(f, r, acc)
    ELSE IF Parsed(r.line, 4) < 4
    THEN [ret |-> FALSE, sectors |-> acc, err |-> "Malformed sector header"]
    ELSE LET w == EdWalls(f, r, r.line[2].v, <<>>)
             sector == [walls |-> w.walls,
                        floorHeight |-> r.line[3].v,
                        ceilingHeight |-> r.line[4].v]
         IN  IF ~w.ok THEN [ret |-> FALSE, sectors |-> acc, err |-> w.err]
             ELSE EdRecords(f, GetLine(f, w.st), Append(acc, sector))

\* loadMap(filename) on the collection prev
loadMap(f, prev) ==
    IF ~f.exists
    THEN [ret |-> FALSE, sectors |-> prev, err |-> "Failed to open map file"]
    ELSE EdRecords(f, StreamStart, <<>>)

\* a writer that forgets the division by GRID_SIZE
SaveWall_pixels(w) ==
    Nums(<<w.p1.x, w.p1.y, w.p2.x, w.p2.y,
           IF w.isPortal THEN 1 ELSE 0, w.adjoiningSector>>)

\* edit.cpp:89-96
SaveWall(w) ==
    Nums(<<CDiv(w.p1.x, GRID_SIZE), CDiv(w.p1.y, GRID_SIZE),
           CDiv(w.p2.x, GRID_SIZE), CDiv(w.p2.y, GRID_SIZE),
           IF w.isPortal THEN 1 ELSE 0, w.adjoiningSector>>)

\* edit.cpp:84-98: header, wall lines, one blank line per sector
RECURSIVE SaveSectors(_, _)
SaveSectors(secs, i) ==
    IF i > Len(secs) THEN <<>>
    ELSE LET sec == secs[i] IN
         <<Nums(<<i - 1, Len(sec.walls),
                  FormatFloat(sec.floorHeight), FormatFloat(sec.ceilingHeight)>>)>>
         \o [j \in 1..Len(sec.walls) |-> SaveWall(sec.walls[j])]
         \o << <<>> >>
         \o SaveSectors(secs, i + 1)

\* the file saveMap writes for the collection secs
saveMap(secs) == File(SaveSectors(secs, 1), TRUE)

----------------------------------------------------------------------------
(* Sector locator and collision resolver, helpers.cpp:64-122 *)

\* 1 / (1e-6 * FIX): the 1e-6 added to y2 - y1 at helpers.cpp:73 is 1/EPS_INV units
EPS_INV == 10000

\* helpers.cpp:72-73 on coordinates of which 1e-6 world units are 1/e.  With
\* m = (y2 - y1 + 1e-6) in units of 1/e, the test
\* x < (x2 - x1) * (y - y1) / (y2 - y1 + 1e-6) + x1 is multiplied through by m.
WallCrossesAt(w, x, y, e) ==
    /\ (w.y1 > y) # (w.y2 > y)
    /\ LET m == (w.y2 - w.y1) * e + 1
           lhs == (x - w.x1) * m
           rhs == (w.x2 - w.x1) * (y - w.y1) * e
       IN  IF m > 0 THEN lhs < rhs ELSE lhs > rhs

\* the same on coordinates in 1/FIX
WallCrosses(w, x, y) == WallCrossesAt(w, x, y, EPS_INV)

\* helpers.cpp:67-76: the crossings counter over walls[i..]
RECURSIVE Crossings(_, _, _, _)
Crossings(walls, i, x, y) ==
    IF i > Len(walls) THEN 0
    ELSE (IF WallCrosses(walls[i], x, y) THEN 1 ELSE 0) + Crossings(walls, i + 1, x, y)

\* helpers.cpp:65-79: the scan from sector index i (0-based, as in the code)
RECURSIVE SectorScan(_, _, _, _)
SectorScan(secs, i, x, y) ==
    IF i >= Len(secs) THEN -1
    ELSE IF Crossings(secs[i + 1].walls, 1, x, y) % 2 = 1 THEN i
    ELSE SectorScan(secs, i + 1, x, y)

\* a locator that keeps scanning and returns the last sector that contains the point
RECURSIVE SectorScanLast(_, _, _, _)
SectorScanLast(secs, i, x, y) ==
    IF i >= Len(secs) THEN -1
    ELSE LET rest == SectorScanLast(secs, i + 1, x, y) IN
         IF rest # -1 THEN rest
         ELSE IF Crossings(secs[i + 1].walls, 1, x, y) % 2 = 1 THEN i ELSE -1

getSectorForPosition_last(secs, x, y) == SectorScanLast(secs, 0, x, y)

getSectorForPosition(secs, x, y) == SectorScan(secs, 0, x, y)

\* helpers.cpp:82-104.  The squared distance as a fraction num / den (den > 0):
\* the code's sqrt is monotone, so dist < r is num < r * r * den.
pointToSegmentDistance(px, py, x1, y1, x2, y2) ==
    LET dx == x2 - x1
        dy == y2 - y1
        vx == px - x1
        vy == py - y1
        len2 == dx * dx + dy * dy
        dot == vx * dx + vy * dy
        cross == vx * dy - vy * dx
    IN  IF dx = 0 /\ dy = 0 THEN [num |-> vx * vx + vy * vy, den |-> 1]
        ELSE IF dot < 0 THEN [num |-> vx * vx + vy * vy, den |-> 1]
        ELSE IF dot > len2
        THEN [num |-> (px - x2) * (px - x2) + (py - y2) * (py - y2), den |-> 1]
        ELSE [num |-> cross * cross, den |-> len2]

DistBelow(d, r) == d.num < r * r * d.den

\* helpers.cpp:112-119 without the isPortal test
RECURSIVE WallScan_portalsBlock(_, _, _, _)
WallScan_portalsBlock(walls, i, x, y) ==
    IF i > Len(walls) THEN FALSE
    ELSE LET w == walls[i] IN
         IF DistBelow(pointToSegmentDistance(x, y, w.x1, w.y1, w.x2, w.y2),
                      COLLISION_RADIUS)
         THEN TRUE
         ELSE WallScan_portalsBlock(walls, i + 1, x, y)

\* helpers.cpp:112-119: the loop over the sector's walls, returning at the first
\* solid wall closer than the radius
RECURSIVE WallScan(_, _, _, _)
WallScan(walls, i, x, y) ==
    IF i > Len(walls) THEN FALSE
    ELSE LET w == walls[i] IN
         IF ~w.isPortal
            /\ DistBelow(pointToSegmentDistance(x, y, w.x1, w.y1, w.x2, w.y2),
                         COLLISION_RADIUS)
         THEN TRUE
         ELSE WallScan(walls, i + 1, x, y)

isMovementBlocked_portalsBlock(secs, newX, newY) ==
    LET sector == getSectorForPosition(secs, newX, newY) IN
    IF sector = -1 THEN TRUE
    ELSE WallScan_portalsBlock(secs[sector + 1].walls, 1, newX, newY)

\* helpers.cpp:108-122
isMovementBlocked(secs, newX, newY) ==
    LET sector == getSectorForPosition(secs, newX, newY) IN
    IF sector = -1 THEN TRUE
    ELSE WallScan(secs[sector + 1].walls, 1, newX, newY)

----------------------------------------------------------------------------
(* The host loop's key handling, main.cpp:126-159 *)

\* units of dir and plane per 1.0
ANG == 1000
\* cos(rotSpeed) and sin(rotSpeed) for rotSpeed = 0.1 (main.cpp:127), in 1/ANG
COS_ROT == 995
SIN_ROT == 100
\* planeY = 0.66 (helpers.cpp:34), in 1/ANG
PLANE_Y0 == 660
\* posX = posY = 2.0 (helpers.cpp:32)
POS_0 == 200

\* the turns the model lets the player make to either side
MaxRot == 1

\* a / b rounded to the nearest integer (b > 0)
RoundDiv(a, b) == (2 * a + b) \div (2 * b)

\* main.cpp:135-136 with the Y move tested where the X move was tested, at
\* the old y
MoveResult_sameRow(secs, x, y, newX, newY) ==
    LET ok == ~isMovementBlocked(secs, newX, y)
    IN  [x |-> IF ok THEN newX ELSE x, y |-> IF ok THEN newY ELSE y]

\* main.cpp:135-136 with the second test made at the old x
MoveResult_independent(secs, x, y, newX, newY) ==
    [x |-> IF ~isMovementBlocked(secs, newX, y) THEN newX ELSE x,
     y |-> IF ~isMovementBlocked(secs, x, newY) THEN newY ELSE y]

\* main.cpp:135-136 (and 141-142): posX is assigned before the second test reads it
MoveResult(secs, x, y, newX, newY) ==
    LET x1 == IF ~isMovementBlocked(secs, newX, y) THEN newX ELSE x
    IN  [x |-> x1,
         y |-> IF ~isMovementBlocked(secs, x1, newY) THEN newY ELSE y]

\* main.cpp:132-143: W (sign = 1) and S (sign = -1)
Move(key, sign) ==
    LET newX == posX + sign * RoundDiv(dirX * moveSpeed, ANG)
        newY == posY + sign * RoundDiv(dirY * moveSpeed, ANG)
        r == MoveResult(sectors, posX, posY, newX, newY)
    IN  /\ posX' = r.x
        /\ posY' = r.y
        /\ lastMove' = [key |-> key, x |-> posX, y |-> posY,
                        newX |-> newX, newY |-> newY]
        /\ UNCHANGED <<sectors, engErr, edSectors, edRet, edErr, disk, savedSectors, lastOp,
                       dirX, dirY, planeX, planeY, rot, col, geo, currentWallPoints,
          drawSectors, currentVertices, currentSectorId, sectorClosed>>

MoveForward == Move("W", 1)

MoveBackward == Move("S", -1)

\* main.cpp:144-159: A (sign = 1) and D (sign = -1); sin(-rotSpeed) = -sin(rotSpeed)
Rotate(key, sign) ==
    /\ sign * rot < MaxRot
    /\ rot' = rot + sign
    /\ dirX' = RoundDiv(dirX * COS_ROT - dirY * sign * SIN_ROT, ANG)
    /\ dirY' = RoundDiv(dirX * sign * SIN_ROT + dirY * COS_ROT, ANG)
    /\ planeX' = RoundDiv(planeX * COS_ROT - planeY * sign * SIN_ROT, ANG)
    /\ planeY' = RoundDiv(planeX * sign * SIN_ROT + planeY * COS_ROT, ANG)
    /\ lastMove' = [key |-> key, x |-> posX, y |-> posY,
                    newX |-> posX, newY |-> posY]
    /\ UNCHANGED <<sectors, engErr, edSectors, edRet, edErr, disk, savedSectors, lastOp,
                   posX, posY, col, geo, currentWallPoints,
          drawSectors, currentVertices, currentSectorId, sectorClosed>>

RotateLeft == Rotate("A", 1)

RotateRight == Rotate("D", -1)

----------------------------------------------------------------------------
(* Map files the engine is started on *)

Hd(id, n, fl, ce) == Nums(<<id, n, fl, ce>>)
Wl(x1, y1, x2, y2, p, a) == Nums(<<x1, y1, x2, y2, p, a>>)

\* room A = [1,3] x [1,3] and room B = [3,4] x [1,2]; the edge (3,1)-(3,2) is
\* a portal on both sides
FileDoor ==
    File(<<Hd(0, 5, 0, 3),
           Wl(1, 1, 3, 1, 0, -1), Wl(3, 1, 3, 2, 1, 1), Wl(3, 2, 3, 3, 0, -1),
           Wl(3, 3, 1, 3, 0, -1), Wl(1, 3, 1, 1, 0, -1),
           <<>>,
           Hd(1, 4, 0, 3),
           Wl(3, 1, 4, 1, 0, -1), Wl(4, 1, 4, 2, 0, -1), Wl(4, 2, 3, 2, 0, -1),
           Wl(3, 2, 3, 1, 1, 0)>>, TRUE)

\* the same rooms; the edge is a portal in B's wall list and solid in A's
FileOneWay ==
    File(<<Hd(0, 5, 0, 3),
           Wl(1, 1, 3, 1, 0, -1), Wl(3, 1, 3, 2, 0, -1), Wl(3, 2, 3, 3, 0, -1),
           Wl(3, 3, 1, 3, 0, -1), Wl(1, 3, 1, 1, 0, -1),
           <<>>,
           Hd(1, 4, 0, 3),
           Wl(3, 1, 4, 1, 0, -1), Wl(4, 1, 4, 2, 0, -1), Wl(4, 2, 3, 2, 0, -1),
           Wl(3, 2, 3, 1, 1, 0)>>, TRUE)

\* two overlapping rooms, [1,3] x [1,3] and [2,4] x [1,3]
FileOverlap ==
    File(<<Hd(0, 4, 0, 3),
           Wl(1, 1, 3, 1, 0, -1), Wl(3, 1, 3, 3, 0, -1),
           Wl(3, 3, 1, 3, 0, -1), Wl(1, 3, 1, 1, 0, -1),
           <<>>,
           Hd(1, 4, 0, 3),
           Wl(2, 1, 4, 1, 0, -1), Wl(4, 1, 4, 3, 0, -1),
           Wl(4, 3, 2, 3, 0, -1), Wl(2, 3, 2, 1, 0, -1)>>, TRUE)

\* room A with corners (1,1), (3,1), (2,3), (1,3) and room B with corners
\* (3,1), (3,3), (2,3); the slanted edge (3,1)-(2,3) is solid in A's wall
\* list and a portal in B's
FileSlant ==
    File(<<Hd(0, 4, 0, 3),
           Wl(1, 1, 3, 1, 0, -1), Wl(3, 1, 2, 3, 0, -1), Wl(2, 3, 1, 3, 0, -1),
           Wl(1, 3, 1, 1, 0, -1),
           <<>>,
           Hd(1, 3, 0, 3),
           Wl(3, 1, 3, 3, 0, -1), Wl(3, 3, 2, 3, 0, -1), Wl(2, 3, 3, 1, 1, 0)>>, TRUE)

MoveFiles == {FileDoor, FileOneWay, FileOverlap, FileSlant}

----------------------------------------------------------------------------
(* Initial values *)

NoOp == [op |-> "none", file |-> NoFile, before |-> <<>>]
NoMove == [key |-> "none", x |-> POS_0, y |-> POS_0, newX |-> POS_0, newY |-> POS_0]
NoCol == [x |-> -1, playerSector |-> -1, rayDirX |-> 0, rayDirY |-> 0,
          steps |-> <<>>, scans |-> 0, stop |-> "none"]
NoGeo == [op |-> "none"]

InitLoader ==
    /\ engErr = ""
    /\ edSectors = <<>>
    /\ edRet = TRUE
    /\ edErr = ""
    /\ disk = NoFile
    /\ savedSectors = <<>>
    /\ currentWallPoints = <<>>
    /\ drawSectors = <<>>
    /\ currentVertices = <<>>
    /\ currentSectorId = 0
    /\ sectorClosed = FALSE
    /\ lastOp = NoOp

\* helpers.cpp:32-34
InitPlayer ==
    /\ posX = POS_0
    /\ posY = POS_0
    /\ dirX = -ANG
    /\ dirY = 0
    /\ planeX = 0
    /\ planeY = PLANE_Y0
    /\ rot = 0
    /\ lastMove = NoMove

----------------------------------------------------------------------------
(* The player walking a loaded map: main.cpp:117-121, then the key handling *)

InitMove ==
    /\ \E f \in MoveFiles : sectors = loadMapFromFile(f, <<>>, 0).sectors
    /\ InitLoader
    /\ InitPlayer
    /\ col = NoCol
    /\ geo = NoGeo

NextMove == MoveForward \/ MoveBackward \/ RotateLeft \/ RotateRight

SpecMove == InitMove /\ [][NextMove]_vars

----------------------------------------------------------------------------
(* Properties of the locator and of the collision resolver *)

\* the points the host hands to the locator: the player's position
\* (renderFrame, main.cpp:16) and the positions tested for the last input
Probes ==
    {<<posX, posY>>, <<lastMove.newX, lastMove.y>>,
     <<lastMove.newX, lastMove.newY>>, <<lastMove.x, lastMove.newY>>}

\* even-odd rule: an odd number of the sector's walls is crossed
Contains(sec, x, y) ==
    Cardinality({j \in 1..Len(sec.walls) : WallCrosses(sec.walls[j], x, y)}) % 2 = 1

Containing(x, y) == {i \in 0..(Len(sectors) - 1) : Contains(sectors[i + 1], x, y)}

NearWalls(sec, x, y) ==
    {j \in 1..Len(sec.walls) :
        DistBelow(pointToSegmentDistance(x, y, sec.walls[j].x1, sec.walls[j].y1,
                                         sec.walls[j].x2, sec.walls[j].y2),
                  COLLISION_RADIUS)}

\* C4: isMovementBlocked(p) is true exactly when p lies in no sector or the
\* sector getSectorForPosition(p) returns has a non-portal wall closer to p
\* than the collision radius; portal walls never block.
C4_BlockedIffOutsideOrNearSolid ==
    \A q \in Probes :
        LET s == getSectorForPosition(sectors, q[1], q[2]) IN
        isMovementBlocked(sectors, q[1], q[2])
            <=> \/ Containing(q[1], q[2]) = {}
                \/ /\ s # -1
                   /\ \E j \in NearWalls(sectors[s + 1], q[1], q[2]) :
                          ~sectors[s + 1].walls[j].isPortal

\* a tested point that is closer than the radius to a portal of its sector
\* and is not blocked
C4_Witness ==
    \E q \in Probes :
        LET s == getSectorForPosition(sectors, q[1], q[2]) IN
        /\ s # -1
        /\ \E j \in NearWalls(sectors[s + 1], q[1], q[2]) :
               sectors[s + 1].walls[j].isPortal
        /\ ~isMovementBlocked(sectors, q[1], q[2])

WasMove == lastMove.key \in {"W", "S"}

\* C5 as claimed: after a forward or backward input the X move and the Y move
\* are each decided against the position held before the input.
C5_AxesIndependent ==
    WasMove =>
        /\ posX = IF ~isMovementBlocked(sectors, lastMove.newX, lastMove.y)
                  THEN lastMove.newX ELSE lastMove.x
        /\ posY = IF ~isMovementBlocked(sectors, lastMove.x, lastMove.newY)
                  THEN lastMove.newY ELSE lastMove.y

\* C5 amended: the X move is decided at (nx, y) for the old y; the Y move is
\* decided at (x', ny) where x' is the X the first decision left.
C5_AxesSequential ==
    WasMove =>
        /\ posX = IF ~isMovementBlocked(sectors, lastMove.newX, lastMove.y)
                  THEN lastMove.newX ELSE lastMove.x
        /\ posY = IF ~isMovementBlocked(sectors, posX, lastMove.newY)
                  THEN lastMove.newY ELSE lastMove.y

\* an input whose X move was made and whose Y test differs between old and new x
C5_Witness ==
    /\ WasMove
    /\ posX = lastMove.newX
    /\ lastMove.newX # lastMove.x
    /\ isMovementBlocked(sectors, lastMove.x, lastMove.newY)
         # isMovementBlocked(sectors, lastMove.newX, lastMove.newY)

\* C6: getSectorForPosition(p) is the smallest index of a sector that contains
\* p under the even-odd test, and -1 when no sector contains p.
C6_FirstContainingSector ==
    \A q \in Probes :
        LET r == getSectorForPosition(sectors, q[1], q[2])
            in == Containing(q[1], q[2])
        IN  IF in = {} THEN r = -1
            ELSE r \in in /\ \A i \in in : r <= i

\* a move whose target lies inside the region shared by two sectors, resolved
\* to the lower of the two
C6_Witness ==
    /\ WasMove
    /\ Containing(lastMove.newX, lastMove.newY) = {0, 1}
    /\ getSectorForPosition(sectors, lastMove.newX, lastMove.newY) = 0
    /\ posX = lastMove.newX /\ posX # lastMove.x

\* (x, y) is closer than the collision radius to a solid wall of some sector
NearSolidWall(x, y) ==
    \E i \in 1..Len(sectors) :
        \E j \in NearWalls(sectors[i], x, y) : ~sectors[i].walls[j].isPortal

\* C18: a tested position that lies inside some sector and is closer than the
\* collision radius to a solid wall of the map is blocked, whichever sector
\* the wall belongs to.
C18_NearAnySolidWallBlocks ==
    \A q \in Probes :
        (Containing(q[1], q[2]) # {} /\ NearSolidWall(q[1], q[2]))
            => isMovementBlocked(sectors, q[1], q[2])

\* the player's position is one isMovementBlocked does not block
Unblocked == ~isMovementBlocked(sectors, posX, posY)

\* the player's position lies inside some sector and no solid wall of the
\* sector the locator gives for it is closer than the collision radius
Clear ==
    LET s == getSectorForPosition(sectors, posX, posY) IN
    /\ Containing(posX, posY) # {}
    /\ s # -1
    /\ \A j \in NearWalls(sectors[s + 1], posX, posY) : sectors[s + 1].walls[j].isPortal

\* C20: when the position held before the last forward, backward or rotate
\* input was not blocked, the position the input leaves is not blocked: it
\* lies inside some sector and is at least the collision radius away from
\* every solid wall of that sector.  So an unblocked position stays unblocked.
C20_StaysUnblocked ==
    ~isMovementBlocked(sectors, lastMove.x, lastMove.y) => (Unblocked /\ Clear)

\* an input that moved the player along X and refused the move along Y,
\* leaving the player within two steps of a solid wall, not blocked
C20_Witness ==
    /\ WasMove
    /\ posX = lastMove.newX /\ posX # lastMove.x
    /\ posY = lastMove.y /\ lastMove.newY # lastMove.y
    /\ Unblocked /\ Clear

----------------------------------------------------------------------------
(* The loaders and the writer applied to files: loadMapFromFile
   (main.cpp:117-121), loadMap (edit.cpp:331-335), saveMap (edit.cpp:386-388).
   Both mains call their loader once, on an empty collection; the functions
   themselves take any collection, and are applied here to any.  The engine
   and the editor are two programs: a behaviour is a run of one of them. *)

\* one room, newline-terminated, blank line after the record
FileRoom ==
    File(<<Hd(0, 4, 0, 3),
           Wl(1, 1, 3, 1, 0, -1), Wl(3, 1, 3, 3, 0, -1),
           Wl(3, 3, 1, 3, 0, -1), Wl(1, 3, 1, 1, 0, -1),
           <<>> >>, TRUE)

\* a header that announces four walls, two wall lines, end of file
FileShort ==
    File(<<Hd(0, 4, 0, 3), Wl(1, 1, 3, 1, 0, -1), Wl(3, 1, 3, 3, 0, -1)>>, TRUE)

\* a good record, then a record cut after its first wall line, no final newline
FileShortTail ==
    File(<<Hd(0, 3, 0, 3),
           Wl(1, 1, 3, 1, 0, -1), Wl(3, 1, 1, 3, 0, -1), Wl(1, 3, 1, 1, 0, -1),
           <<>>,
           Hd(1, 3, 0, 4), Wl(3, 1, 4, 1, 1, 0)>>, FALSE)

\* a good record, then a record whose header starts with a word
FileBadHeader ==
    File(<<Hd(0, 3, 0, 3),
           Wl(1, 1, 3, 1, 0, -1), Wl(3, 1, 1, 3, 0, -1), Wl(1, 3, 1, 1, 0, -1),
           <<>>,
           <<Word, Num(3), Num(0), Num(3)>>,
           Wl(3, 1, 4, 1, 0, -1), Wl(4, 1, 3, 3, 0, -1), Wl(3, 3, 3, 1, 0, -1),
           <<>> >>, TRUE)

\* a record whose second wall line has a word where y1 should be
FileBadWall ==
    File(<<Hd(0, 3, 0, 3),
           Wl(1, 1, 3, 1, 0, -1),
           <<Num(3), Word, Num(1), Num(3), Num(0), Num(-1)>>,
           Wl(1, 3, 1, 1, 0, -1),
           <<>> >>, TRUE)

\* heights with seven significant digits
FilePrecise ==
    File(<<Hd(0, 3, 1234567, 7654321),
           Wl(1, 1, 3, 1, 0, -1), Wl(3, 1, 1, 3, 0, -1), Wl(1, 3, 1, 1, 0, -1),
           <<>> >>, TRUE)

\* the two rooms of FileDoor with no line between the records
FileNoSep ==
    File(<<Hd(0, 5, 0, 3),
           Wl(1, 1, 3, 1, 0, -1), Wl(3, 1, 3, 2, 1, 1), Wl(3, 2, 3, 3, 0, -1),
           Wl(3, 3, 1, 3, 0, -1), Wl(1, 3, 1, 1, 0, -1),
           Hd(1, 4, 0, 3),
           Wl(3, 1, 4, 1, 0, -1), Wl(4, 1, 4, 2, 0, -1), Wl(4, 2, 3, 2, 0, -1),
           Wl(3, 2, 3, 1, 1, 0)>>, TRUE)

\* the same rooms with a comment line before the first record and a comment
\* line and two blank lines between the records
FileComment ==
    File(<<<<Hash, Word>>,
           Hd(0, 5, 0, 3),
           Wl(1, 1, 3, 1, 0, -1), Wl(3, 1, 3, 2, 1, 1), Wl(3, 2, 3, 3, 0, -1),
           Wl(3, 3, 1, 3, 0, -1), Wl(1, 3, 1, 1, 0, -1),
           <<>>, <<Hash, Word>>, <<>>,
           Hd(1, 4, 0, 3),
           Wl(3, 1, 4, 1, 0, -1), Wl(4, 1, 4, 2, 0, -1), Wl(4, 2, 3, 2, 0, -1),
           Wl(3, 2, 3, 1, 1, 0)>>, TRUE)

LoadFiles ==
    {FileRoom, FileDoor, FileShort, FileShortTail, FileBadHeader, FileBadWall,
     FilePrecise, FileNoSep, FileComment, NoFile}

\* loadMapFromFile(f)
LoadMapFromFile ==
    \E f \in LoadFiles, g \in Indet :
        LET r == loadMapFromFile(f, sectors, g) IN
        /\ lastOp.op \in {"none", "engLoad"}
        /\ sectors' = r.sectors
        /\ engErr' = r.err
        /\ lastOp' = [op |-> "engLoad", file |-> f, before |-> sectors]
        /\ UNCHANGED <<edSectors, edRet, edErr, disk, savedSectors,
                       posX, posY, dirX, dirY, planeX, planeY, rot, lastMove, col, geo, currentWallPoints,
          drawSectors, currentVertices, currentSectorId, sectorClosed>>

\* loadMap(f), of an input file or of the file saveMap wrote
LoadMap ==
    \E f \in LoadFiles \cup {disk} :
        LET r == loadMap(f, edSectors) IN
        /\ lastOp.op \in {"none", "edLoad", "save"}
        /\ edSectors' = r.sectors
        /\ edRet' = r.ret
        /\ edErr' = r.err
        /\ lastOp' = [op |-> "edLoad", file |-> f, before |-> edSectors]
        /\ UNCHANGED <<sectors, engErr, disk, savedSectors,
                       posX, posY, dirX, dirY, planeX, planeY, rot, lastMove, col, geo, currentWallPoints,
          drawSectors, currentVertices, currentSectorId, sectorClosed>>

\* saveMap(currentMapFilename); edit.cpp:79-82: the file may fail to open
SaveMap ==
    \E opened \in BOOLEAN :
        /\ lastOp.op \in {"none", "edLoad", "save"}
        /\ disk' = IF opened THEN saveMap(edSectors) ELSE disk
        /\ savedSectors' = IF opened THEN edSectors ELSE savedSectors
        /\ lastOp' = [op |-> "save", file |-> disk', before |-> edSectors]
        /\ UNCHANGED <<sectors, engErr, edSectors, edRet, edErr,
                       posX, posY, dirX, dirY, planeX, planeY, rot, lastMove, col, geo, currentWallPoints,
          drawSectors, currentVertices, currentSectorId, sectorClosed>>

InitLoad ==
    /\ sectors = <<>>
    /\ InitLoader
    /\ InitPlayer
    /\ col = NoCol
    /\ geo = NoGeo

NextLoad == LoadMapFromFile \/ LoadMap \/ SaveMap

SpecLoad == InitLoad /\ [][NextLoad]_vars

----------------------------------------------------------------------------
(* Properties of the loaders *)

\* The file format read line by line: blank and '#' lines between records are
\* skipped, a record is a header of four numbers and wallCount wall lines of
\* six numbers.  The first defect met, and the number of whole records before it.
RECURSIVE Scan(_, _, _)
Scan(ls, i, good) ==
    IF i > Len(ls) THEN [defect |-> "none", good |-> good]
    ELSE IF ls[i] = <<>> \/ Head(ls[i]).k = "#" THEN Scan(ls, i + 1, good)
    ELSE IF Parsed(ls[i], 4) < 4 THEN [defect |-> "header", good |-> good]
    ELSE LET n == ls[i][2].v IN
         IF \E j \in 1..n : i + j <= Len(ls) /\ Parsed(ls[i + j], 6) < 6
         THEN [defect |-> "wall", good |-> good]
         ELSE IF i + n > Len(ls) THEN [defect |-> "short", good |-> good]
         ELSE Scan(ls, i + n + 1, good + 1)

Defect(f) == Scan(f.lines, 1, 0).defect
GoodRecords(f) == Scan(f.lines, 1, 0).good

WasLoad == lastOp.op \in {"engLoad", "edLoad"}
Loaded == IF lastOp.op = "engLoad" THEN sectors ELSE edSectors
Reported ==
    IF lastOp.op = "engLoad" THEN engErr # "" ELSE ~edRet /\ edErr # ""

\* C1: a load that meets a malformed header, or fewer wall lines than the
\* header states, leaves the sector collection as it was before the load
\* (engine loader and editor loader).
C1_FailedLoadKeepsMap ==
    (WasLoad /\ lastOp.file.exists /\ Defect(lastOp.file) \in {"header", "short"})
        => Loaded = lastOp.before

\* C2: on a malformed header, a missing wall line or an unparsable wall line
\* the load aborts and reports an error: the collection holds no sector beyond
\* the whole records that precede the defect.
C2_DefectAbortsLoad ==
    (WasLoad /\ lastOp.file.exists /\ Defect(lastOp.file) # "none")
        => Reported /\ Len(Loaded) <= GoodRecords(lastOp.file)

\* C3: when the file cannot be opened the loader reports it and returns with
\* the sector collection unchanged.
C3_OpenFailureKeepsMap ==
    (WasLoad /\ ~lastOp.file.exists) => Reported /\ Loaded = lastOp.before

\* a failed open met by the engine loader while a map was loaded
C3_Witness ==
    /\ lastOp.op = "engLoad"
    /\ ~lastOp.file.exists
    /\ lastOp.before # <<>>
    /\ sectors = lastOp.before

SectorWalls(secs) == [i \in DOMAIN secs |-> secs[i].walls]

HeightsAsPrinted ==
    (lastOp.op = "edLoad" /\ lastOp.file.exists /\ lastOp.file = disk)
        => \A i \in DOMAIN edSectors :
              /\ edSectors[i].floorHeight = FormatFloat(savedSectors[i].floorHeight)
              /\ edSectors[i].ceilingHeight = FormatFloat(savedSectors[i].ceilingHeight)

RECURSIVE Canon(_, _)
Canon(ls, i) ==
    IF i > Len(ls) THEN <<>>
    ELSE IF ls[i] = <<>> \/ Head(ls[i]).k = "#" THEN Canon(ls, i + 1)
    ELSE LET n == ls[i][2].v
         IN  SubSeq(ls, i, i + n) \o << <<>> >> \o Canon(ls, i + n + 1)

Separated(f) == File(Canon(f.lines, 1), TRUE)

\* what the loader that made the last load leaves for the file f
LoadOf(f) ==
    IF lastOp.op = "engLoad" THEN loadMapFromFile(f, lastOp.before, 0).sectors
    ELSE loadMap(f, lastOp.before).sectors

\* C11: blank lines and comment lines between the records do not change the
\* map a loader produces: a file without defect loads to the collection that
\* the same records separated by exactly one blank line load to (engine loader
\* and editor loader).
C11_SeparatorsIgnored ==
    (WasLoad /\ lastOp.file.exists /\ Defect(lastOp.file) = "none")
        => Loaded = LoadOf(Separated(lastOp.file))

\* C11 for the engine loader alone
C11_EngineSeparatorsIgnored ==
    (lastOp.op = "engLoad" /\ lastOp.file.exists /\ Defect(lastOp.file) = "none")
        => sectors = LoadOf(Separated(lastOp.file))

----------------------------------------------------------------------------
(* The portal raycaster, helpers.cpp:43-62 and main.cpp:15-93 *)

\* main.cpp:87-88: the 0.01 added to closestDist when the ray is advanced
PUSH == 1

\* a segment that keeps its end points out of the hit (0 < u < 1)
intersectRayWithSegment_openEnds(rayX, rayY, rayDX, rayDY, x1, y1, x2, y2) ==
    LET denom == rayDX * (y2 - y1) - rayDY * (x2 - x1)
        tn == (x1 - rayX) * (y2 - y1) - (y1 - rayY) * (x2 - x1)
        un == (x1 - rayX) * rayDY - (y1 - rayY) * rayDX
        sg == IF denom > 0 THEN 1 ELSE -1
    IN  IF denom # 0 /\ sg * tn > 0 /\ sg * un > 0 /\ sg * un < sg * denom
        THEN [hit |-> TRUE, dist |-> RoundDiv(sg * tn * ANG, sg * denom)]
        ELSE [hit |-> FALSE, dist |-> 0]

\* helpers.cpp:43-62.  denom is in 1/(ANG*FIX), so fabs(denom) < 1e-6 is
\* |denom| < 0.1, that is denom = 0.  t and u are tested by sign and by
\* cross-multiplication; the distance t is returned in 1/FIX, rounded.
intersectRayWithSegment(rayX, rayY, rayDX, rayDY, x1, y1, x2, y2) ==
    LET sdx == x2 - x1
        sdy == y2 - y1
        denom == rayDX * sdy - rayDY * sdx
        dx == x1 - rayX
        dy == y1 - rayY
        tn == dx * sdy - dy * sdx
        un == dx * rayDY - dy * rayDX
        sg == IF denom > 0 THEN 1 ELSE -1
    IN  IF denom = 0 THEN [hit |-> FALSE, dist |-> 0]
        ELSE IF sg * tn > 0 /\ sg * un >= 0 /\ sg * un <= sg * denom
        THEN [hit |-> TRUE, dist |-> RoundDiv(sg * tn * ANG, sg * denom)]
        ELSE [hit |-> FALSE, dist |-> 0]

\* helpers.cpp:50-56: the ray parameter t of the crossing with wall w as the
\* fraction <<num, den>> with den > 0 (the wall is one the ray hits)
RayParam(rayX, rayY, rayDX, rayDY, w) ==
    LET sdx == w.x2 - w.x1
        sdy == w.y2 - w.y1
        denom == rayDX * sdy - rayDY * sdx
        tn == (w.x1 - rayX) * sdy - (w.y1 - rayY) * sdx
    IN  IF denom > 0 THEN <<tn, denom>> ELSE <<-tn, -denom>>

\* a / b < c / d for fractions <<a, b>>, <<c, d>> with a, c >= 0 and b, d > 0,
\* compared by whole parts and then by the remainders (no product is formed)
RECURSIVE FracLess(_, _)
FracLess(p, q) ==
    LET qa == p[1] \div p[2]
        qc == q[1] \div q[2]
        ra == p[1] % p[2]
        rc == q[1] % q[2]
    IN  IF qa # qc THEN qa < qc
        ELSE IF rc = 0 THEN FALSE
        ELSE IF ra = 0 THEN TRUE
        ELSE FracLess(<<q[2], rc>>, <<p[2], ra>>)

\* main.cpp:35-37: no hit yet (hitWall = nullptr); t is closestDist as a
\* fraction, dist its rounding to 1/FIX
NoHit == [found |-> FALSE, dist |-> 0, si |-> -1, wi |-> 0, t |-> <<0, 1>>]

\* main.cpp:46 with <= for <: of equally distant walls the last one is kept
Closer_lastWins(t, best) == ~best.found \/ ~FracLess(best.t, t)

\* main.cpp:46: dist < closestDist, closestDist being infinity before a hit
Closer(t, best) == ~best.found \/ FracLess(t, best.t)

\* main.cpp:42-52: the walls of sector si (0-based) from wall wi on; best is
\* the closest hit so far
RECURSIVE ScanSector(_, _, _, _, _, _, _, _)
ScanSector(walls, si, wi, rayX, rayY, rayDX, rayDY, best) ==
    IF wi > Len(walls) THEN best
    ELSE LET w == walls[wi]
             r == intersectRayWithSegment(rayX, rayY, rayDX, rayDY,
                                          w.x1, w.y1, w.x2, w.y2)
             t == RayParam(rayX, rayY, rayDX, rayDY, w)
         IN  IF r.hit /\ Closer(t, best)
             THEN ScanSector(walls, si, wi + 1, rayX, rayY, rayDX, rayDY,
                             [found |-> TRUE, dist |-> r.dist, si |-> si,
                              wi |-> wi, t |-> t])
             ELSE ScanSector(walls, si, wi + 1, rayX, rayY, rayDX, rayDY, best)

\* main.cpp:40-53: the scan of every sector from sector si on
RECURSIVE ScanWalls(_, _, _, _, _, _, _)
ScanWalls(secs, si, rayX, rayY, rayDX, rayDY, best) ==
    IF si >= Len(secs) THEN best
    ELSE LET b == ScanSector(secs[si + 1].walls, si, 1, rayX, rayY, rayDX, rayDY, best)
         IN  \* (both branches pass b on; the test only fixes when b is computed)
             IF b.found
             THEN ScanWalls(secs, si + 1, rayX, rayY, rayDX, rayDY,
                            [found |-> TRUE, dist |-> b.dist, si |-> b.si,
                             wi |-> b.wi, t |-> b.t])
             ELSE ScanWalls(secs, si + 1, rayX, rayY, rayDX, rayDY, NoHit)

\* main.cpp:34: the loop test with <= for <
DepthLeft_offByOne(depth) == depth <= MAX_PORTAL_DEPTH

\* main.cpp:34: depth < MAX_PORTAL_DEPTH
DepthLeft(depth) == depth < MAX_PORTAL_DEPTH

\* main.cpp:91 without the range test
PortalLeadsOn_unchecked(currentSector, n) == TRUE

\* main.cpp:91: the loop goes on unless currentSector < 0 || currentSector >= size
PortalLeadsOn(currentSector, n) == ~(currentSector < 0 \/ currentSector >= n)

\* main.cpp:85 ignored: a solid wall does not end the column
EndsColumn_never(w) == FALSE

\* main.cpp:85: if (!hitWall->isPortal) break
EndsColumn(w) == ~w.isPortal

\* main.cpp:87-88 without the 0.01: the ray restarts on the portal
Advance_noPush(ray, rayDir, t) == ray + RoundDiv(rayDir * t[1], t[2])

\* main.cpp:87-88: rayX += rayDirX * (closestDist + 0.01), one coordinate.
\* closestDist is the double t, not its rounding to 1/FIX: the step to the hit
\* point and the push are rounded to 1/FIX each.
Advance(ray, rayDir, t) ==
    ray + RoundDiv(rayDir * t[1], t[2]) + RoundDiv(rayDir * PUSH, ANG)

\* main.cpp:34-92: the steps of one column from `depth` on.  A step is one hit:
\* the origin the scan was made from, the wall hit, the distances, and the
\* three drawVerticalLine calls (main.cpp:69, 81, 83) made for it.
RECURSIVE ColumnSteps(_, _, _, _, _, _, _)
ColumnSteps(secs, depth, rayX, rayY, rayDX, rayDY, totalDist) ==
    IF ~DepthLeft(depth) THEN [steps |-> <<>>, scans |-> 0, stop |-> "depth"]
    ELSE LET h == ScanWalls(secs, 0, rayX, rayY, rayDX, rayDY, NoHit) IN
         IF ~h.found THEN [steps |-> <<>>, scans |-> 1, stop |-> "nohit"]
         ELSE LET w == secs[h.si + 1].walls[h.wi]
                  total == totalDist + h.dist
                  step == [depth |-> depth, rayX |-> rayX, rayY |-> rayY,
                           sector |-> h.si, wall |-> h.wi,
                           isPortal |-> w.isPortal,
                           adjoiningSector |-> w.adjoiningSector,
                           dist |-> h.dist, totalDist |-> total, draws |-> 3]
              IN  IF EndsColumn(w)
                  THEN [steps |-> <<step>>, scans |-> 1, stop |-> "solid"]
                  ELSE IF ~PortalLeadsOn(w.adjoiningSector, Len(secs))
                  THEN [steps |-> <<step>>, scans |-> 1, stop |-> "deadend"]
                  ELSE LET rest == ColumnSteps(secs, depth + 1,
                                       Advance(rayX, rayDX, h.t),
                                       Advance(rayY, rayDY, h.t),
                                       rayDX, rayDY, total)
                       IN  [steps |-> <<step>> \o rest.steps,
                            scans |-> 1 + rest.scans, stop |-> rest.stop]

\* main.cpp:13
playerEyeHeightOffset == FIX

Max(a, b) == IF a > b THEN a ELSE b
Min(a, b) == IF a < b THEN a ELSE b

\* main.cpp:19, 59-83: the three drawVerticalLine calls made for the hit of
\* step s, as <<start, end>> pairs (rows start .. end - 1 are written).  The
\* casts to int truncate toward zero; totalDist and the heights are in 1/FIX.
StepSpans(secs, playerSector, s) ==
    LET playerHeight == secs[playerSector + 1].floorHeight + playerEyeHeightOffset
        floorHeight == secs[s.sector + 1].floorHeight
        ceilingHeight == secs[s.sector + 1].ceilingHeight
        half == SCREEN_HEIGHT \div 2
        ceiling0 == CDiv(half * s.totalDist
                            - (ceilingHeight - playerHeight) * SCREEN_HEIGHT,
                         s.totalDist)
        floor0 == CDiv(half * s.totalDist
                          + (playerHeight - floorHeight) * SCREEN_HEIGHT,
                       s.totalDist)
        ceilingScreenY == Max(0, ceiling0)
        floorScreenY == Min(SCREEN_HEIGHT - 1, floor0)
        lineHeight == CDiv(SCREEN_HEIGHT * FIX, s.totalDist)
        drawStart == IF floorScreenY < ceilingScreenY
                     THEN Max(0, half - CDiv(lineHeight, 2))
                     ELSE ceilingScreenY
        drawEnd == IF floorScreenY < ceilingScreenY
                   THEN Min(SCREEN_HEIGHT - 1, drawStart + lineHeight)
                   ELSE floorScreenY
    IN  << <<0, ceilingScreenY>>, <<drawStart, drawEnd>>,
           <<floorScreenY, SCREEN_HEIGHT>> >>

\* the steps of a column, each with the spans drawn for it
WithSpans(secs, playerSector, steps) ==
    [k \in 1..Len(steps) |->
        [depth |-> steps[k].depth, rayX |-> steps[k].rayX, rayY |-> steps[k].rayY,
         sector |-> steps[k].sector, wall |-> steps[k].wall,
         isPortal |-> steps[k].isPortal,
         adjoiningSector |-> steps[k].adjoiningSector,
         dist |-> steps[k].dist, totalDist |-> steps[k].totalDist,
         draws |-> steps[k].draws,
         spans |-> IF steps[k].totalDist > 0
                   THEN StepSpans(secs, playerSector, steps[k]) ELSE <<>>]]

\* main.cpp:16-31: column x of renderFrame.  cameraX = 2x / SCREEN_WIDTH - 1.
Column(secs, x) ==
    LET playerSector == getSectorForPosition(secs, posX, posY)
        rayDirX == dirX + RoundDiv(planeX * (2 * x - SCREEN_WIDTH), SCREEN_WIDTH)
        rayDirY == dirY + RoundDiv(planeY * (2 * x - SCREEN_WIDTH), SCREEN_WIDTH)
    IN  IF playerSector = -1
        THEN [x |-> x, playerSector |-> -1, rayDirX |-> rayDirX, rayDirY |-> rayDirY,
              steps |-> <<>>, scans |-> 0, stop |-> "noplayer"]
        ELSE LET c == ColumnSteps(secs, 0, posX, posY, rayDirX, rayDirY, 0)
             IN  [x |-> x, playerSector |-> playerSector,
                  rayDirX |-> rayDirX, rayDirY |-> rayDirY,
                  steps |-> WithSpans(secs, playerSector, c.steps),
                  scans |-> c.scans, stop |-> c.stop]

\* the screen columns the model renders: the two edges, the centre and the
\* quarter points
Columns == {0, 270, 540, 810, SCREEN_WIDTH - 1}

\* renderFrame (main.cpp:162), one of its columns
RenderColumn ==
    \E x \in Columns :
        /\ col' = Column(sectors, x)
        /\ UNCHANGED <<sectors, engErr, edSectors, edRet, edErr, disk, savedSectors,
                       lastOp, posX, posY, dirX, dirY, planeX, planeY, rot, lastMove, geo, currentWallPoints,
          drawSectors, currentVertices, currentSectorId, sectorClosed>>

\* the longest corridor of the maps below, in portals
MaxChain == 11

\* cell i >= 1 of a corridor of n cells west of the room: [1-i, 2-i] x [1,3];
\* its east wall is a portal back, its west wall a portal on unless i = n
CorridorCell(i, n) ==
    <<Hd(i, 4, 0, 3),
      Wl(1 - i, 1, 2 - i, 1, 0, -1),
      Wl(2 - i, 1, 2 - i, 3, 1, i - 1),
      Wl(2 - i, 3, 1 - i, 3, 0, -1),
      IF i < n THEN Wl(1 - i, 3, 1 - i, 1, 1, i + 1) ELSE Wl(1 - i, 3, 1 - i, 1, 0, -1),
      <<>> >>

RECURSIVE CorridorCells(_, _)
CorridorCells(i, n) ==
    IF i > n THEN <<>> ELSE CorridorCell(i, n) \o CorridorCells(i + 1, n)

\* the room [1,3] x [1,3] and a corridor of n cells through its west wall
CorridorFile(n) ==
    File(<<Hd(0, 4, 0, 3),
           Wl(1, 1, 3, 1, 0, -1), Wl(3, 1, 3, 3, 0, -1), Wl(3, 3, 1, 3, 0, -1),
           IF n > 0 THEN Wl(1, 3, 1, 1, 1, 1) ELSE Wl(1, 3, 1, 1, 0, -1),
           <<>> >> \o CorridorCells(1, n), TRUE)

\* the room with its west wall flagged p (1 = portal) and naming sector a, and
\* a closed cell of solid walls behind that wall
DeadEndFile(p, a) ==
    File(<<Hd(0, 4, 0, 3),
           Wl(1, 1, 3, 1, 0, -1), Wl(3, 1, 3, 3, 0, -1), Wl(3, 3, 1, 3, 0, -1),
           Wl(1, 3, 1, 1, p, a),
           <<>>,
           Hd(1, 4, 0, 3),
           Wl(0, 1, 1, 1, 0, -1), Wl(1, 1, 1, 3, 0, -1), Wl(1, 3, 0, 3, 0, -1),
           Wl(0, 3, 0, 1, 0, -1)>>, TRUE)

\* the room and one cell behind a portal in its west wall, the cell with floor
\* height fl and ceiling height ce
HeightsFile(fl, ce) ==
    File(<<Hd(0, 4, 0, 3),
           Wl(1, 1, 3, 1, 0, -1), Wl(3, 1, 3, 3, 0, -1), Wl(3, 3, 1, 3, 0, -1),
           Wl(1, 3, 1, 1, 1, 1),
           <<>>,
           Hd(1, 4, fl, ce),
           Wl(0, 1, 1, 1, 0, -1), Wl(1, 1, 1, 3, 1, 0), Wl(1, 3, 0, 3, 0, -1),
           Wl(0, 3, 0, 1, 0, -1)>>, TRUE)

\* the cell [0,1] x [1,3] (floor 1, ceiling 2) listed first and the room
\* second, joined by a portal: the player starts in sector 1
SwappedFile ==
    File(<<Hd(0, 4, 1, 2),
           Wl(0, 1, 1, 1, 0, -1), Wl(1, 1, 1, 3, 1, 1), Wl(1, 3, 0, 3, 0, -1),
           Wl(0, 3, 0, 1, 0, -1),
           <<>>,
           Hd(1, 4, 0, 3),
           Wl(1, 1, 3, 1, 0, -1), Wl(3, 1, 3, 3, 0, -1), Wl(3, 3, 1, 3, 0, -1),
           Wl(1, 3, 1, 1, 1, 0)>>, TRUE)

\* corridors, dead ends, a raised cell (floor 3, ceiling 5) and a pit (floor
\* -2, ceiling -1) next to the room, and the room listed after its cell
RenderFiles ==
    {CorridorFile(n) : n \in 0..MaxChain}
        \cup {DeadEndFile(1, a) : a \in {-1, 2, 7}} \cup {DeadEndFile(0, 1)}
        \cup {HeightsFile(3, 5), HeightsFile(-2, -1), SwappedFile}

InitRender ==
    /\ \E f \in RenderFiles : sectors = loadMapFromFile(f, <<>>, 0).sectors
    /\ InitLoader
    /\ InitPlayer
    /\ col = NoCol
    /\ geo = NoGeo

NextRender == RotateLeft \/ RotateRight \/ RenderColumn

SpecRender == InitRender /\ [][NextRender]_vars

----------------------------------------------------------------------------
(* Properties of a rendered column *)

Rendered == col.stop \notin {"none", "noplayer"}

ValidSector(i) == i >= 0 /\ i < Len(sectors)

\* C7: a hit portal whose adjoiningSector is negative or not below the number
\* of sectors ends the column at that step: it is the last step, no scan
\* follows it, and every index used on the sector collection is in range.
C7_InvalidPortalEndsColumn ==
    Rendered =>
        /\ ValidSector(col.playerSector)
        /\ \A k \in 1..Len(col.steps) :
              /\ ValidSector(col.steps[k].sector)
              /\ (col.steps[k].isPortal /\ ~ValidSector(col.steps[k].adjoiningSector))
                    => /\ k = Len(col.steps)
                       /\ col.scans = k
                       /\ col.stop = "deadend"

\* a column that ended on a portal naming no sector, in a map that has walls
\* behind that portal
C7_Witness ==
    /\ col.stop = "deadend"
    /\ Len(col.steps) = 1
    /\ col.steps[1].isPortal
    /\ ~ValidSector(col.steps[1].adjoiningSector)
    /\ Len(sectors) = 2

SumDraws(steps) == 3 * Cardinality({k \in 1..Len(steps) : steps[k].draws = 3})

\* C8: a column makes at most MAX_PORTAL_DEPTH hit steps and draws for at most
\* that many hits, however long the chain of portals along the ray; when the
\* depth bound ends the column, exactly that many steps were made.
C8_DepthBound ==
    Rendered =>
        /\ Len(col.steps) <= MAX_PORTAL_DEPTH
        /\ col.scans <= MAX_PORTAL_DEPTH
        /\ SumDraws(col.steps) <= 3 * MAX_PORTAL_DEPTH
        /\ \A k \in 1..Len(col.steps) : col.steps[k].depth = k - 1
        /\ col.stop = "depth" => Len(col.steps) = MAX_PORTAL_DEPTH

\* a column cut by the depth bound in a corridor of more portals than the bound
C8_Witness ==
    /\ col.stop = "depth"
    /\ Len(col.steps) = MAX_PORTAL_DEPTH
    /\ \A k \in 1..Len(col.steps) : col.steps[k].isPortal
    /\ Len(sectors) > MAX_PORTAL_DEPTH + 1

\* C9: a non-portal hit ends the column: the hits drawn are portal walls
\* followed by at most one solid wall, which is the last, and no scan follows it.
C9_SolidWallEndsColumn ==
    Rendered =>
        /\ \A k \in 1..Len(col.steps) :
              ~col.steps[k].isPortal
                  => k = Len(col.steps) /\ col.scans = k /\ col.stop = "solid"
        /\ col.stop = "solid"
              => Len(col.steps) >= 1 /\ ~col.steps[Len(col.steps)].isPortal

\* a column that passed portals and ended on the solid wall behind them
C9_Witness ==
    /\ col.stop = "solid"
    /\ Len(col.steps) >= 3
    /\ \A k \in 1..(Len(col.steps) - 1) : col.steps[k].isPortal
    /\ ~col.steps[Len(col.steps)].isPortal

\* the walls, as <<sector index, wall number>>, that the ray of step k crosses
\* at a positive distance from the step's origin
HitRefs(k) ==
    {r \in (0..(Len(sectors) - 1)) \X (1..8) :
        /\ r[2] <= Len(sectors[r[1] + 1].walls)
        /\ LET w == sectors[r[1] + 1].walls[r[2]]
           IN  intersectRayWithSegment(col.steps[k].rayX, col.steps[k].rayY,
                                       col.rayDirX, col.rayDirY,
                                       w.x1, w.y1, w.x2, w.y2).hit}

\* the ray parameter at which the ray of step k crosses wall r
HitParam(k, r) ==
    RayParam(col.steps[k].rayX, col.steps[k].rayY, col.rayDirX, col.rayDirY,
             sectors[r[1] + 1].walls[r[2]])

\* r comes before q in sector order and then in wall order
FirstEncountered(r, q) == r[1] < q[1] \/ (r[1] = q[1] /\ r[2] <= q[2])

\* C19: the wall taken as the hit of a step is one the ray crosses, no wall of
\* any sector is crossed nearer, and of the walls crossed at that same
\* distance it is the first in sector order and then in wall order; the
\* step's sector, whose heights are drawn, is the sector of that wall.
C19_NearestHitFirstOnTies ==
    Rendered =>
        \A k \in 1..Len(col.steps) :
            LET sel == <<col.steps[k].sector, col.steps[k].wall>> IN
            /\ sel \in HitRefs(k)
            /\ \A r \in HitRefs(k) :
                  /\ ~FracLess(HitParam(k, r), HitParam(k, sel))
                  /\ ~FracLess(HitParam(k, sel), HitParam(k, r))
                        => FirstEncountered(sel, r)

\* a step whose nearest distance is shared by a wall of another sector, and a
\* step whose hit is a wall of a sector the ray's origin is not in
C19_Witness ==
    /\ Rendered
    /\ \E k \in 1..Len(col.steps) :
          LET sel == <<col.steps[k].sector, col.steps[k].wall>> IN
          \E r \in HitRefs(k) :
              /\ r[1] # sel[1]
              /\ ~FracLess(HitParam(k, sel), HitParam(k, r))
    /\ \E k \in 1..Len(col.steps) :
          col.steps[k].sector
              # getSectorForPosition(sectors, col.steps[k].rayX, col.steps[k].rayY)

\* the rows drawVerticalLine writes for the span sp: start .. end - 1
\* (helpers.cpp:36-41)
SpanOnScreen(sp) == sp[1] < sp[2] => (sp[1] >= 0 /\ sp[2] <= SCREEN_HEIGHT)

\* C14: every pixel row written by the three drawVerticalLine calls of a hit
\* lies in 0..SCREEN_HEIGHT-1, whatever the floor and ceiling heights of the
\* hit sector and the positive accumulated distance.
C14_RowsOnScreen ==
    Rendered =>
        \A k \in 1..Len(col.steps) :
            \A j \in 1..Len(col.steps[k].spans) : SpanOnScreen(col.steps[k].spans[j])

\* C14 for the wall span alone (the second call): its rows are on the screen
C14_WallSpanOnScreen ==
    Rendered =>
        \A k \in 1..Len(col.steps) :
            col.steps[k].totalDist > 0 => SpanOnScreen(col.steps[k].spans[2])

\* the wall hit in step k of the rendered column
StepWall(k) == sectors[col.steps[k].sector + 1].walls[col.steps[k].wall]

\* the side of wall w's line the point (x, y) is on: positive, zero, negative
SideOfWall(w, x, y) == (w.x2 - w.x1) * (y - w.y1) - (w.y2 - w.y1) * (x - w.x1)

\* the two walls are the same segment, in either direction
SameSegment(v, w) ==
    \/ (v.x1 = w.x1 /\ v.y1 = w.y1 /\ v.x2 = w.x2 /\ v.y2 = w.y2)
    \/ (v.x1 = w.x2 /\ v.y1 = w.y2 /\ v.x2 = w.x1 /\ v.y2 = w.y1)

\* step k hit a portal to a sector of the map and the ray went on to step k + 1
WentOn(k) ==
    /\ k < Len(col.steps)
    /\ col.steps[k].isPortal
    /\ ValidSector(col.steps[k].adjoiningSector)

RECURSIVE SumDist(_, _)
SumDist(steps, k) == IF k = 0 THEN 0 ELSE SumDist(steps, k - 1) + steps[k].dist

\* C17: when a ray hits a portal to a sector of the map and a wall lies
\* behind it, the next scan starts strictly on the far side of the portal, it
\* hits neither the portal nor its mirror in the adjoining sector, every
\* step's accumulated distance is the sum of the hit distances so far, and a
\* solid wall hit behind the portal is the last step of the column.
C17_PortalContinuation ==
    Rendered =>
        \A k \in 1..Len(col.steps) :
            /\ col.steps[k].totalDist = SumDist(col.steps, k)
            /\ WentOn(k) =>
                  LET a == col.steps[k]
                      b == col.steps[k + 1]
                  IN  /\ SideOfWall(StepWall(k), a.rayX, a.rayY)
                           * SideOfWall(StepWall(k), b.rayX, b.rayY) < 0
                      /\ ~SameSegment(StepWall(k + 1), StepWall(k))
                      /\ ~StepWall(k + 1).isPortal =>
                            (k + 1 = Len(col.steps) /\ col.stop = "solid")

\* a column went through one portal to a solid wall of the sector behind it
C17_Witness ==
    /\ Rendered
    /\ Len(col.steps) = 2
    /\ WentOn(1)
    /\ col.stop = "solid"
    /\ col.steps[2].sector = col.steps[1].adjoiningSector
    /\ col.steps[2].totalDist = col.steps[1].dist + col.steps[2].dist
    /\ col.steps[2].dist > 0

----------------------------------------------------------------------------
(* intersectRayWithSegment on rays and segments of a small grid,
   helpers.cpp:43-62.  Grid points are half world units; directions have
   components -1, 0, 1. *)

\* the grid is 0..MaxCoord half units on each axis
MaxCoord == 3

Half == FIX \div 2

Coords == 0..MaxCoord
Dirs == {d \in {-1, 0, 1} \X {-1, 0, 1} : d # <<0, 0>>}

GeoUnchanged ==
    UNCHANGED <<sectors, engErr, edSectors, edRet, edErr, disk, savedSectors, lastOp,
                posX, posY, dirX, dirY, planeX, planeY, rot, lastMove, col,
                currentWallPoints,
          drawSectors, currentVertices, currentSectorId, sectorClosed>>

\* a call intersectRayWithSegment(o, d, p1, p2, outDist) is about to be made
InitIntersect ==
    /\ sectors = <<>>
    /\ InitLoader
    /\ InitPlayer
    /\ col = NoCol
    /\ \E ox \in Coords, oy \in Coords, d \in Dirs,
          x1 \in Coords, y1 \in Coords, x2 \in Coords, y2 \in Coords :
          geo = [op |-> "call", ox |-> ox, oy |-> oy, dx |-> d[1], dy |-> d[2],
                 x1 |-> x1, y1 |-> y1, x2 |-> x2, y2 |-> y2]

\* the call returns
IntersectRayWithSegment ==
    /\ geo.op = "call"
    /\ geo' = [geo EXCEPT !.op = "intersect"] @@
              [r |-> intersectRayWithSegment(
                         geo.ox * Half, geo.oy * Half, geo.dx * ANG, geo.dy * ANG,
                         geo.x1 * Half, geo.y1 * Half, geo.x2 * Half, geo.y2 * Half)]
    /\ GeoUnchanged

NextIntersect == IntersectRayWithSegment

SpecIntersect == InitIntersect /\ [][NextIntersect]_vars

\* Geometry of the call in geo, in half units, by the points themselves:
\* the ray is o + t d, the segment p1 + u (p2 - p1).
Cross(ax, ay, bx, by) == ax * by - ay * bx
Dot(ax, ay, bx, by) == ax * bx + ay * by

\* the ray's line and the segment's line are parallel (or the segment is a point)
GeoParallel == Cross(geo.dx, geo.dy, geo.x2 - geo.x1, geo.y2 - geo.y1) = 0

\* the point (px, py) / q, q > 0, lies on the ray at t > 0
OnRay(px, py, q) ==
    /\ Cross(px - q * geo.ox, py - q * geo.oy, geo.dx, geo.dy) = 0
    /\ Dot(px - q * geo.ox, py - q * geo.oy, geo.dx, geo.dy) > 0

\* the point (px, py) / q, q > 0, lies on the segment, end points included
OnSegment(px, py, q) ==
    LET sx == geo.x2 - geo.x1
        sy == geo.y2 - geo.y1
        k == Dot(px - q * geo.x1, py - q * geo.y1, sx, sy)
    IN  /\ Cross(px - q * geo.x1, py - q * geo.y1, sx, sy) = 0
        /\ k >= 0
        /\ k <= q * Dot(sx, sy, sx, sy)
        /\ (sx = 0 /\ sy = 0) => (px = q * geo.x1 /\ py = q * geo.y1)

\* the point where the two lines cross when they are not parallel, as
\* (px, py) / q with q > 0
CrossingPoint ==
    LET sx == geo.x2 - geo.x1
        sy == geo.y2 - geo.y1
        den == Cross(geo.dx, geo.dy, sx, sy)
        tn == Cross(geo.x1 - geo.ox, geo.y1 - geo.oy, sx, sy)
        sg == IF den > 0 THEN 1 ELSE -1
    IN  [px |-> sg * (den * geo.ox + tn * geo.dx),
         py |-> sg * (den * geo.oy + tn * geo.dy),
         q |-> sg * den, tn |-> sg * tn]

\* the ray and the segment have a point in common at t > 0
TrulyIntersect ==
    IF GeoParallel
    THEN OnRay(geo.x1, geo.y1, 1) \/ OnRay(geo.x2, geo.y2, 1)
    ELSE LET c == CrossingPoint
         IN  OnRay(c.px, c.py, c.q) /\ OnSegment(c.px, c.py, c.q)

\* the distance reported is the ray parameter t of the crossing point, in
\* 1/FIX and rounded: t = tn / q half units of length per unit direction
DistIsT ==
    LET c == CrossingPoint
        d == 2 * (geo.r.dist * c.q - Half * c.tn)
    IN  d <= c.q /\ -d <= c.q

Intersected == geo.op = "intersect"

\* C12 as claimed: a hit is reported exactly when the ray and the segment have
\* a common point at t > 0 and u in [0,1], parallel and collinear pairs
\* included, and the distance reported is that t.
C12_HitIffIntersects ==
    Intersected =>
        /\ geo.r.hit <=> TrulyIntersect
        /\ geo.r.hit => DistIsT

\* C12 as the code has it: a hit is reported exactly when the ray's line and
\* the segment's line are not parallel and cross at t > 0 and u in [0,1] (end
\* points included), the distance reported being that t; a ray parallel to the
\* segment, collinear or not, reports no hit.
C12_HitIffCrossing ==
    Intersected =>
        /\ geo.r.hit <=> (~GeoParallel /\ TrulyIntersect)
        /\ geo.r.hit => DistIsT

\* a perpendicular ray that meets the segment exactly at one of its end points
C12_Witness ==
    /\ Intersected
    /\ geo.r.hit
    /\ Dot(geo.dx, geo.dy, geo.x2 - geo.x1, geo.y2 - geo.y1) = 0
    /\ \/ OnRay(geo.x1, geo.y1, 1)
       \/ OnRay(geo.x2, geo.y2, 1)

----------------------------------------------------------------------------
(* The containment test of getSectorForPosition (helpers.cpp:67-77) on convex
   sectors, with points closer to a wall than 1e-6.  Coordinates here are in
   1/FINE world units. *)

FINE == 100 * FIX
EPS_FINE == 1000000 \div FINE

\* helpers.cpp:67-77: the crossings counter of one sector and its parity
ContainsAt(walls, x, y, e) ==
    Cardinality({j \in 1..Len(walls) : WallCrossesAt(walls[j], x, y, e)}) % 2 = 1

\* the closed polygon on the vertices vs, one wall per edge, in order
Polygon(vs) ==
    [j \in 1..Len(vs) |->
        [x1 |-> vs[j][1], y1 |-> vs[j][2],
         x2 |-> vs[(j % Len(vs)) + 1][1], y2 |-> vs[(j % Len(vs)) + 1][2],
         isPortal |-> FALSE, adjoiningSector |-> -1]]

\* convex sectors, counter-clockwise: a square of 0.1 world units, two right
\* triangles with a slanted wall, and a diamond
ConvexShapes ==
    {<< <<0, 0>>, <<1000, 0>>, <<1000, 1000>>, <<0, 1000>> >>,
     << <<0, 0>>, <<1000, 0>>, <<0, 1001>> >>,
     << <<0, 0>>, <<1000, 0>>, <<1000, 1001>> >>,
     << <<500, 0>>, <<1000, 500>>, <<500, 1000>>, <<0, 500>> >>}

\* probe coordinates come within Near of the corners' coordinates
Near == 2

Around(c) == (c - Near)..(c + Near)
ProbeCoords == Around(0) \cup Around(250) \cup Around(500) \cup Around(1000)

InitContain ==
    /\ sectors = <<>>
    /\ InitLoader
    /\ InitPlayer
    /\ col = NoCol
    /\ \E vs \in ConvexShapes, x \in ProbeCoords, y \in ProbeCoords :
          geo = [op |-> "point", vs |-> vs, x |-> x, y |-> y]

\* the crossing test of one sector is made for the point
ContainmentTest ==
    /\ geo.op = "point"
    /\ geo' = [geo EXCEPT !.op = "contain"] @@
              [r |-> ContainsAt(Polygon(geo.vs), geo.x, geo.y, EPS_FINE)]
    /\ GeoUnchanged

NextContain == ContainmentTest

SpecContain == InitContain /\ [][NextContain]_vars

\* the side of the point with respect to edge j of the counter-clockwise
\* polygon vs: positive on the inner side, zero on the edge's line
Side(vs, j, x, y) ==
    LET a == vs[j]
        b == vs[(j % Len(vs)) + 1]
    IN  Cross(b[1] - a[1], b[2] - a[2], x - a[1], y - a[2])

StrictlyInside(vs, x, y) == \A j \in 1..Len(vs) : Side(vs, j, x, y) > 0
StrictlyOutside(vs, x, y) == \E j \in 1..Len(vs) : Side(vs, j, x, y) < 0

\* C13: for a sector whose walls form a convex closed polygon the containment
\* test reports every point strictly inside as contained and every point
\* strictly outside as not contained.
C13_ConvexContainment ==
    geo.op = "contain" =>
        /\ StrictlyInside(geo.vs, geo.x, geo.y) => geo.r
        /\ StrictlyOutside(geo.vs, geo.x, geo.y) => ~geo.r

\* C13 for the sectors all of whose walls are horizontal or vertical (the
\* square): the test is exact there
C13_AxisAlignedContainment ==
    (geo.op = "contain" /\ \A j \in 1..Len(geo.vs) :
         LET w == Polygon(geo.vs)[j] IN w.x1 = w.x2 \/ w.y1 = w.y2) =>
        /\ StrictlyInside(geo.vs, geo.x, geo.y) => geo.r
        /\ StrictlyOutside(geo.vs, geo.x, geo.y) => ~geo.r

----------------------------------------------------------------------------
(* The map editor's mouse and key handlers, edit.cpp:157-306 and 343-400.
   Editor coordinates are pixels. *)

\* edit.cpp:13
HIT_RADIUS == 6

Pt(x, y) == [x |-> x, y |-> y]

\* edit.cpp:34-39
gridSnap(x, y) == Pt(CDiv(x, GRID_SIZE) * GRID_SIZE, CDiv(y, GRID_SIZE) * GRID_SIZE)

EdWall(p1, p2, isPortal, adjoiningSector) ==
    [p1 |-> p1, p2 |-> p2, isPortal |-> isPortal, adjoiningSector |-> adjoiningSector]

\* edit.cpp:71-80: the same computation as pointToSegmentDistance
distanceToSegment(p, v, w) == pointToSegmentDistance(p.x, p.y, v.x, v.y, w.x, w.y)

\* the walls of a collection as <<sector index (0-based), wall index (1-based)>>
WallRefs(secs) ==
    UNION {{<<i, j>> : j \in 1..Len(secs[i + 1].walls)} : i \in 0..(Len(secs) - 1)}

\* the first of a non-empty set of walls in the order of the loops: by sector,
\* then by wall
FirstRef(S) ==
    CHOOSE r \in S : \A q \in S : r[1] < q[1] \/ (r[1] = q[1] /\ r[2] <= q[2])

NoRef == <<-1, 0>>

\* edit.cpp:87-98 (findWallAt) and 263-275 (findHoveredSector)
findWallAt(secs, x, y) ==
    LET near == {r \in WallRefs(secs) :
                    DistBelow(distanceToSegment(Pt(x, y), secs[r[1] + 1].walls[r[2]].p1,
                                                secs[r[1] + 1].walls[r[2]].p2),
                              HIT_RADIUS)}
    IN  IF near = {} THEN NoRef ELSE FirstRef(near)

\* edit.cpp:100-102
cross(a, b, c) == (b.x - a.x) * (c.y - a.y) - (b.y - a.y) * (c.x - a.x)

\* edit.cpp:104-112; on integers |cross| > 0.1 is cross # 0
segmentsOverlap(p1, q1, p2, q2) ==
    /\ cross(p1, q1, p2) = 0
    /\ cross(p1, q1, q2) = 0
    /\ ~(Max(p1.x, q1.x) < Min(p2.x, q2.x) \/ Min(p1.x, q1.x) > Max(p2.x, q2.x))
    /\ ~(Max(p1.y, q1.y) < Min(p2.y, q2.y) \/ Min(p1.y, q1.y) > Max(p2.y, q2.y))

\* the sequence ws with its k-th element replaced by the sequence new
Splice(ws, k, new) == SubSeq(ws, 1, k - 1) \o new \o SubSeq(ws, k + 1, Len(ws))

\* edit.cpp:228-234 and 246-252: a wall from e1 to e2 cut around the overlap
\* os..oe, whose middle piece is a portal to sector to
CutWall(e1, e2, os, oe, to) ==
    (IF e1 = os THEN <<>> ELSE <<EdWall(e1, os, FALSE, -1)>>)
    \o <<EdWall(os, oe, TRUE, to)>>
    \o (IF e2 = oe THEN <<>> ELSE <<EdWall(oe, e2, FALSE, -1)>>)

\* edit.cpp:222-223: the end points in increasing (x, y) order
Ordered(p, q) ==
    IF p.x > q.x \/ (p.x = q.x /\ p.y > q.y) THEN <<q, p>> ELSE <<p, q>>

\* edit.cpp:200-260: tryAutoLinkPortal(&sectors[si].walls[wi], si)
tryAutoLinkPortal(secs, si, wi) ==
    LET wall == secs[si + 1].walls[wi]
        found == {r \in WallRefs(secs) :
                     /\ r[1] # si
                     /\ ~secs[r[1] + 1].walls[r[2]].isPortal
                     /\ segmentsOverlap(wall.p1, wall.p2,
                                        secs[r[1] + 1].walls[r[2]].p1,
                                        secs[r[1] + 1].walls[r[2]].p2)}
    IN  IF found = {} THEN secs
        ELSE LET r == FirstRef(found)
                 otherWall == secs[r[1] + 1].walls[r[2]]
                 a == Ordered(wall.p1, wall.p2)
                 b == Ordered(otherWall.p1, otherWall.p2)
                 overlapStart == Pt(Max(a[1].x, b[1].x), Max(a[1].y, b[1].y))
                 overlapEnd == Pt(Min(a[2].x, b[2].x), Min(a[2].y, b[2].y))
                 newWalls == CutWall(a[1], a[2], overlapStart, overlapEnd, r[1])
                 newOtherWalls == CutWall(b[1], b[2], overlapStart, overlapEnd, si)
             IN  [i \in 1..Len(secs) |->
                    IF i = si + 1
                    THEN [secs[i] EXCEPT !.walls = Splice(@, wi, newWalls)]
                    ELSE IF i = r[1] + 1
                    THEN [secs[i] EXCEPT !.walls = Splice(@, r[2], newOtherWalls)]
                    ELSE secs[i]]

Solid(w) == [w EXCEPT !.isPortal = FALSE, !.adjoiningSector = -1]

\* edit.cpp:356-367: the portal wall (si, wi) is unset, with the walls of the
\* sector it names that are portals back to si
UnsetPortal(secs, si, wi) ==
    LET linkedSector == secs[si + 1].walls[wi].adjoiningSector
        unlinked ==
            IF linkedSector >= 0 /\ linkedSector < Len(secs)
            THEN [secs EXCEPT ![linkedSector + 1].walls =
                     [j \in 1..Len(@) |->
                         IF @[j].adjoiningSector = si /\ @[j].isPortal
                         THEN Solid(@[j]) ELSE @[j]]]
            ELSE secs
    IN  [unlinked EXCEPT ![si + 1].walls[wi] = Solid(@)]

\* edit.cpp:350-371: the right mouse button at pixel (x, y)
RightButton(secs, x, y) ==
    LET ref == findWallAt(secs, x, y) IN
    IF ref = NoRef THEN secs
    ELSE IF ~secs[ref[1] + 1].walls[ref[2]].isPortal
    THEN tryAutoLinkPortal([secs EXCEPT ![ref[1] + 1].walls[ref[2]].isPortal = TRUE],
                           ref[1], ref[2])
    ELSE UnsetPortal(secs, ref[1], ref[2])

\* the walls of every sector of secs passed through f
MapWalls(secs, f(_)) ==
    [i \in 1..Len(secs) |->
        [secs[i] EXCEPT !.walls = [j \in 1..Len(@) |-> f(@[j])]]]

\* edit.cpp:282-291: the loop before the erase
Unlink(w, sectorIndex) ==
    IF w.isPortal /\ w.adjoiningSector = sectorIndex THEN Solid(w)
    ELSE IF w.isPortal /\ w.adjoiningSector > sectorIndex
    THEN [w EXCEPT !.adjoiningSector = @ - 1]
    ELSE w

\* edit.cpp:296-303: the loop after the erase
Shift(w, sectorIndex) ==
    IF w.isPortal /\ w.adjoiningSector > sectorIndex
    THEN [w EXCEPT !.adjoiningSector = @ - 1]
    ELSE w

\* edit.cpp:277-306
deleteSector(secs, sectorIndex) ==
    IF sectorIndex < 0 \/ sectorIndex >= Len(secs) THEN secs
    ELSE LET unlinked == MapWalls(secs, LAMBDA w : Unlink(w, sectorIndex))
             erased == SubSeq(unlinked, 1, sectorIndex)
                           \o SubSeq(unlinked, sectorIndex + 2, Len(unlinked))
         IN  MapWalls(erased, LAMBDA w : Shift(w, sectorIndex))

\* edit.cpp:376-384: the sector made of the outline pts
NewSector(pts) ==
    [walls |-> [i \in 1..Len(pts) |->
                   EdWall(pts[i], pts[(i % Len(pts)) + 1], FALSE, -1)],
     floorHeight |-> 0, ceilingHeight |-> 4]

\* the editor holds at most MaxSectors sectors
MaxSectors == 3

\* the outlines the user draws, in grid cells: three squares in a row
Outlines ==
    {<< <<1, 1>>, <<2, 1>>, <<2, 2>>, <<1, 2>> >>,
     << <<2, 1>>, <<3, 1>>, <<3, 2>>, <<2, 2>> >>,
     << <<3, 1>>, <<4, 1>>, <<4, 2>>, <<3, 2>> >>}

\* where in a grid cell the left button is pressed
ClickOffsets == {0, GRID_SIZE \div 2 + 1}

\* the pixels the right button and the d key are used at: the middle of the
\* first square's left edge, which no other outline touches, and of the two
\* edges that two squares share
WallPoints ==
    {Pt(GRID_SIZE, GRID_SIZE + GRID_SIZE \div 2),
     Pt(2 * GRID_SIZE, GRID_SIZE + GRID_SIZE \div 2),
     Pt(3 * GRID_SIZE, GRID_SIZE + GRID_SIZE \div 2)}

EdOp(op, before, k) == [op |-> op, file |-> NoFile, before |-> before, k |-> k]

EditUnchanged ==
    UNCHANGED <<sectors, engErr, edRet, edErr, disk, savedSectors,
                posX, posY, dirX, dirY, planeX, planeY, rot, lastMove, col, geo,
                drawSectors, currentVertices, currentSectorId, sectorClosed>>

\* edit.cpp:345-348: the left button adds the snapped point to the outline
LeftButton ==
    \E o \in Outlines, off \in ClickOffsets :
        LET n == Len(currentWallPoints) + 1 IN
        /\ Len(edSectors) < MaxSectors
        /\ n <= Len(o)
        /\ \A i \in 1..(n - 1) :
              currentWallPoints[i] = Pt(o[i][1] * GRID_SIZE, o[i][2] * GRID_SIZE)
        /\ currentWallPoints' =
              Append(currentWallPoints,
                     gridSnap(o[n][1] * GRID_SIZE + off, o[n][2] * GRID_SIZE + off))
        /\ lastOp' = EdOp("edit", <<>>, -1)
        /\ UNCHANGED edSectors
        /\ EditUnchanged

\* edit.cpp:375-385: Return closes an outline of more than two points; the
\* user presses it when the outline is complete
ReturnKey ==
    /\ Len(currentWallPoints) > 2
    /\ \E o \in Outlines :
          currentWallPoints = [i \in 1..Len(o) |-> Pt(o[i][1] * GRID_SIZE, o[i][2] * GRID_SIZE)]
    /\ edSectors' = Append(edSectors, NewSector(currentWallPoints))
    /\ currentWallPoints' = <<>>
    /\ lastOp' = EdOp("edit", <<>>, -1)
    /\ EditUnchanged

\* edit.cpp:349-372: the right button on a wall; the user toggles walls
\* between outlines
RightButtonDown ==
    \E p \in WallPoints :
        /\ currentWallPoints = <<>>
        /\ findWallAt(edSectors, p.x, p.y) # NoRef
        /\ edSectors' = RightButton(edSectors, p.x, p.y)
        /\ lastOp' = EdOp("edit", <<>>, -1)
        /\ UNCHANGED currentWallPoints
        /\ EditUnchanged

\* edit.cpp:264-275: the first sector with a wall under the mouse
findHoveredSector(secs, mx, my) == findWallAt(secs, mx, my)[1]

\* edit.cpp:392-399: the d key with the mouse over a wall; the user deletes
\* between outlines
DeleteKey ==
    \E p \in WallPoints :
        LET hovered == findHoveredSector(edSectors, p.x, p.y) IN
        /\ currentWallPoints = <<>>
        /\ hovered >= 0
        /\ edSectors' = deleteSector(edSectors, hovered)
        /\ lastOp' = EdOp("delete", edSectors, hovered)
        /\ UNCHANGED currentWallPoints
        /\ EditUnchanged

\* edit.cpp:331-335 with no file argument: the editor starts empty
InitEdit ==
    /\ sectors = <<>>
    /\ InitLoader
    /\ InitPlayer
    /\ col = NoCol
    /\ geo = NoGeo

NextEdit == LeftButton \/ ReturnKey \/ RightButtonDown \/ DeleteKey

SpecEdit == InitEdit /\ [][NextEdit]_vars

\* C15: after any creations, portal toggles and deletions every wall with
\* isPortal = true has an adjoiningSector that is an index of the collection.
C15_PortalsNameSectors ==
    \A r \in WallRefs(edSectors) :
        edSectors[r[1] + 1].walls[r[2]].isPortal
            => /\ edSectors[r[1] + 1].walls[r[2]].adjoiningSector >= 0
               /\ edSectors[r[1] + 1].walls[r[2]].adjoiningSector < Len(edSectors)

\* the index after deleteSector(k) of what was index j # k
Renumbered(j, k) == IF j > k THEN j - 1 ELSE j

\* C16: deleteSector(k) keeps every portal reference on the sector it
\* denoted: a reference to j < k stays j, a reference to j > k becomes j - 1,
\* and a portal to k becomes a solid wall with adjoiningSector -1.
C16_DeleteRenumbers ==
    lastOp.op = "delete" =>
        /\ Len(edSectors) = Len(lastOp.before) - 1
        /\ \A r \in WallRefs(lastOp.before) :
              r[1] # lastOp.k =>
                  LET old == lastOp.before[r[1] + 1].walls[r[2]]
                      new == edSectors[Renumbered(r[1], lastOp.k) + 1].walls[r[2]]
                  IN  IF ~old.isPortal THEN new = old
                      ELSE IF old.adjoiningSector = lastOp.k THEN new = Solid(old)
                      ELSE new = [old EXCEPT !.adjoiningSector =
                                      Renumbered(old.adjoiningSector, lastOp.k)]

----------------------------------------------------------------------------
(* Walking through walls: the moves the host commits (main.cpp:132-143)
   against the solid walls of the whole map *)

\* the segment from (ax, ay) to (bx, by) crosses wall w: its ends are strictly
\* on opposite sides of the wall's line and the wall's ends strictly on
\* opposite sides of the segment's line
CrossesWall(ax, ay, bx, by, w) ==
    LET sa == SideOfWall(w, ax, ay)
        sb == SideOfWall(w, bx, by)
        s1 == (bx - ax) * (w.y1 - ay) - (by - ay) * (w.x1 - ax)
        s2 == (bx - ax) * (w.y2 - ay) - (by - ay) * (w.x2 - ax)
    IN  /\ (sa < 0 /\ sb > 0) \/ (sa > 0 /\ sb < 0)
        /\ (s1 < 0 /\ s2 > 0) \/ (s1 > 0 /\ s2 < 0)

\* some solid wall of some sector is crossed by the segment
CrossesSolidWall(ax, ay, bx, by) ==
    \E i \in 1..Len(sectors) : \E j \in 1..Len(sectors[i].walls) :
        /\ ~sectors[i].walls[j].isPortal
        /\ CrossesWall(ax, ay, bx, by, sectors[i].walls[j])

\* C21: the two single-axis moves the last forward or backward input
\* committed, along X from (x, y) to (posX, y) and then along Y from (posX, y)
\* to (posX, posY), cross no solid wall of the map.
C21_NoWalkThroughSolidWalls ==
    WasMove =>
        /\ ~CrossesSolidWall(lastMove.x, lastMove.y, posX, lastMove.y)
        /\ ~CrossesSolidWall(posX, lastMove.y, posX, posY)

----------------------------------------------------------------------------
(* The sector-drawing tool, editor/test.cpp.  Coordinates are pixels; after
   snapping they are multiples of the 5-pixel grid, so the floats are whole. *)

\* test.cpp:25
CLOSE_DIST == 10
\* test.cpp:26
SNAP_DIST == 10
\* test.cpp:27  GRID_SIZE of the drawing tool (the editor's is 32)
DRAW_GRID_SIZE == 5

\* test.cpp:37-39 compared with a bound: dist(...) < d, on squares
DistLess(x1, y1, x2, y2, d) ==
    (x2 - x1) * (x2 - x1) + (y2 - y1) * (y2 - y1) < d * d

\* test.cpp:41-45
nearFirstVertex(vs, x, y) ==
    IF vs = <<>> THEN FALSE
    ELSE DistLess(x, y, vs[1].x, vs[1].y, CLOSE_DIST)

\* test.cpp:113-115: std::round(val / gridSize) * gridSize, val >= 0
snapToGrid(val, gridSize) == ((2 * val + gridSize) \div (2 * gridSize)) * gridSize

\* test.cpp:118-120
snapVertexToGrid(v, gridSize) == Pt(snapToGrid(v.x, gridSize), snapToGrid(v.y, gridSize))

\* test.cpp:9-13
DrawWall(x1, y1, x2, y2, isPortal, adjoiningSector) ==
    [x1 |-> x1, y1 |-> y1, x2 |-> x2, y2 |-> y2,
     isPortal |-> isPortal, adjoiningSector |-> adjoiningSector]

\* test.cpp:124-132: the walls of sector si from wall wi on, then the later
\* sectors; the first end point closer than SNAP_DIST is returned
RECURSIVE SnapScan(_, _, _, _)
SnapScan(secs, si, wi, p) ==
    IF si > Len(secs) THEN p
    ELSE IF wi > Len(secs[si].walls) THEN SnapScan(secs, si + 1, 1, p)
    ELSE LET w == secs[si].walls[wi]
             v1 == snapVertexToGrid(Pt(w.x1, w.y1), DRAW_GRID_SIZE)
             v2 == snapVertexToGrid(Pt(w.x2, w.y2), DRAW_GRID_SIZE)
         IN  IF DistLess(p.x, p.y, v1.x, v1.y, SNAP_DIST) THEN v1
             ELSE IF DistLess(p.x, p.y, v2.x, v2.y, SNAP_DIST) THEN v2
             ELSE SnapScan(secs, si, wi + 1, p)

\* test.cpp:123-134
snapToExistingVertices(secs, x, y) ==
    SnapScan(secs, 1, 1, snapVertexToGrid(Pt(x, y), DRAW_GRID_SIZE))

\* test.cpp:147-158: the two walls have the same snapped end points, in
\* either order
sameSegment(newWall, existWall) ==
    LET nw1 == snapVertexToGrid(Pt(newWall.x1, newWall.y1), DRAW_GRID_SIZE)
        nw2 == snapVertexToGrid(Pt(newWall.x2, newWall.y2), DRAW_GRID_SIZE)
        ew1 == snapVertexToGrid(Pt(existWall.x1, existWall.y1), DRAW_GRID_SIZE)
        ew2 == snapVertexToGrid(Pt(existWall.x2, existWall.y2), DRAW_GRID_SIZE)
    IN  (nw1 = ew1 /\ nw2 = ew2) \/ (nw1 = ew2 /\ nw2 = ew1)

\* the existing sectors, by position, that have a wall on new wall w
Matching(secs, w) ==
    {k \in 1..Len(secs) : \E j \in 1..Len(secs[k].walls) : sameSegment(w, secs[k].walls[j])}

\* how often wallsToRemove holds the index of new wall w (test.cpp:167)
Matches(secs, w) ==
    Cardinality({r \in (1..Len(secs)) \X (1..8) :
                    /\ r[2] <= Len(secs[r[1]].walls)
                    /\ sameSegment(w, secs[r[1]].walls[r[2]])})

\* test.cpp:174-177 after the sort: the indices from the highest down, index
\* i erased c times (c = its count in wallsToRemove).  Erasing at the end
\* iterator is undefined; g picks between leaving the vector and dropping
\* its last wall.
RECURSIVE EraseWalls(_, _, _, _, _)
EraseWalls(walls, count, i, c, g) ==
    IF i = 0 THEN walls
    ELSE IF c = 0
    THEN EraseWalls(walls, count, i - 1, IF i > 1 THEN count[i - 1] ELSE 0, g)
    ELSE IF i <= Len(walls)
    THEN EraseWalls(SubSeq(walls, 1, i - 1) \o SubSeq(walls, i + 1, Len(walls)),
                    count, i, c - 1, g)
    ELSE EraseWalls(IF g = 1 /\ walls # <<>> THEN SubSeq(walls, 1, Len(walls) - 1)
                    ELSE walls,
                    count, i, c - 1, g)

\* test.cpp:140-171: the loops of linkPortals, before anything is erased
MarkPortals(secs, newSector) ==
    LET n == Len(newSector.walls)
        linked == [i \in 1..n |->
                     LET w == newSector.walls[i]
                         m == Matching(secs, w)
                     IN  IF m = {} THEN w
                         ELSE [w EXCEPT !.isPortal = TRUE,
                                        !.adjoiningSector =
                                            secs[CHOOSE k \in m : \A l \in m : l <= k].id]]
    IN  [sectors |->
            [k \in 1..Len(secs) |->
                [secs[k] EXCEPT !.walls =
                    [j \in 1..Len(secs[k].walls) |->
                        IF \E i \in 1..n : sameSegment(newSector.walls[i], secs[k].walls[j])
                        THEN [secs[k].walls[j] EXCEPT !.isPortal = TRUE,
                                                      !.adjoiningSector = newSector.id]
                        ELSE secs[k].walls[j]]]],
         newSector |-> [newSector EXCEPT !.walls = linked]]

\* test.cpp:137-178: linkPortals(newSector) on the collection secs, which
\* does not hold newSector yet.  Every wall of secs on a wall of the new
\* sector becomes a portal to it; the new wall becomes a portal to the last
\* such sector and its index is put on wallsToRemove; those walls are erased.
linkPortals(secs, newSector, g) ==
    LET n == Len(newSector.walls)
        kept == MarkPortals(secs, newSector)
        count == [i \in 1..n |-> Matches(secs, newSector.walls[i])]
    IN  [sectors |-> kept.sectors,
         newSector |-> [kept.newSector EXCEPT
                           !.walls = EraseWalls(@, count, n, count[n], g)]]

\* test.cpp:242-256: the sector made of the outline vs, its walls from each
\* vertex to the next
OutlineSector(vs, id) ==
    [id |-> id,
     walls |-> [i \in 1..Len(vs) |->
                  DrawWall(vs[i].x, vs[i].y,
                           vs[(i % Len(vs)) + 1].x, vs[(i % Len(vs)) + 1].y, FALSE, -1)],
     floor_height |-> 0, ceiling_height |-> 4]

\* the outlines drawn, in pixels: three squares of side 40 in a row
DrawOutlines ==
    {<<Pt(40, 40), Pt(80, 40), Pt(80, 80), Pt(40, 80)>>,
     <<Pt(80, 40), Pt(120, 40), Pt(120, 80), Pt(80, 80)>>,
     <<Pt(120, 40), Pt(160, 40), Pt(160, 80), Pt(120, 80)>>}

\* how far from a corner the button is pressed, on both axes
DrawOffsets == {0, 2}

\* test.cpp:237-262: the click that closes the outline
CloseSector ==
    LET vs == [i \in 1..Len(currentVertices) |->
                  snapToExistingVertices(drawSectors, currentVertices[i].x,
                                         currentVertices[i].y)]
    IN  \E g \in Indet :
          LET r == linkPortals(drawSectors, OutlineSector(vs, currentSectorId), g)
          IN  /\ drawSectors' = Append(r.sectors, r.newSector)
              /\ currentSectorId' = currentSectorId + 1
              /\ currentVertices' = <<>>
              /\ sectorClosed' = TRUE
              /\ lastOp' = [op |-> "close", file |-> NoFile, before |-> drawSectors,
                            k |-> currentSectorId, outline |-> vs]

\* test.cpp:228-277: the left button at (mx, my)
LeftClickAt(mx, my) ==
    IF ~sectorClosed
    THEN IF nearFirstVertex(currentVertices, mx, my) /\ Len(currentVertices) >= 3
         THEN CloseSector
         ELSE /\ currentVertices' =
                    Append(currentVertices, snapToExistingVertices(drawSectors, mx, my))
              /\ lastOp' = EdOp("click", <<>>, -1)
              /\ UNCHANGED <<drawSectors, currentSectorId, sectorClosed>>
    ELSE /\ sectorClosed' = FALSE
         /\ currentVertices' = <<snapToExistingVertices(drawSectors, mx, my)>>
         /\ lastOp' = EdOp("click", <<>>, -1)
         /\ UNCHANGED <<drawSectors, currentSectorId>>

DrawUnchanged ==
    UNCHANGED <<sectors, engErr, edSectors, edRet, edErr, disk, savedSectors,
                posX, posY, dirX, dirY, planeX, planeY, rot, lastMove, col, geo,
                currentWallPoints>>

\* test.cpp:229-277: the user clicks the corners of an outline in order, near
\* each corner, and then, with three or more corners set, near the first
LeftClick ==
    \E o \in DrawOutlines, off \in DrawOffsets, k \in 1..4 :
        /\ Len(drawSectors) < MaxSectors
        /\ Len(currentVertices) <= Len(o)
        /\ \A i \in 1..Len(currentVertices) : currentVertices[i] = o[i]
        /\ k = Len(currentVertices) + 1 \/ (k = 1 /\ Len(currentVertices) >= 3)
        /\ k <= Len(o)
        /\ LeftClickAt(o[k].x + off, o[k].y + off)
        /\ DrawUnchanged

\* test.cpp:219 and 33-35: nothing is drawn yet
InitDraw ==
    /\ sectors = <<>>
    /\ InitLoader
    /\ InitPlayer
    /\ col = NoCol
    /\ geo = NoGeo

NextDraw == LeftClick

SpecDraw == InitDraw /\ [][NextDraw]_vars

\* the wall w lies on the segment from p to q, in either direction
OnEdge(w, p, q) ==
    \/ (w.x1 = p.x /\ w.y1 = p.y /\ w.x2 = q.x /\ w.y2 = q.y)
    \/ (w.x1 = q.x /\ w.y1 = q.y /\ w.x2 = p.x /\ w.y2 = p.y)

\* the sector sec has a portal to sector id on the segment from p to q
PortalOn(sec, p, q, id) ==
    \E j \in 1..Len(sec.walls) :
        /\ OnEdge(sec.walls[j], p, q)
        /\ sec.walls[j].isPortal
        /\ sec.walls[j].adjoiningSector = id

\* C22: after a sector is closed, for every edge of its outline that a sector
\* drawn before has a wall on, both sectors hold a portal wall on that edge
\* naming the other; and the new sector has one wall per vertex of its
\* outline, from each vertex to the next, so that its walls form a closed loop.
C22_PortalsBothWaysClosedLoop ==
    lastOp.op = "close" =>
        LET vs == lastOp.outline
            n == Len(vs)
            new == drawSectors[Len(drawSectors)]
        IN  /\ \A i \in 1..n : \A e \in 1..Len(lastOp.before) :
                  (\E j \in 1..Len(lastOp.before[e].walls) :
                       OnEdge(lastOp.before[e].walls[j], vs[i], vs[(i % n) + 1]))
                  => /\ PortalOn(new, vs[i], vs[(i % n) + 1], drawSectors[e].id)
                     /\ PortalOn(drawSectors[e], vs[i], vs[(i % n) + 1], new.id)
            /\ Len(new.walls) = n
            /\ \A i \in 1..n :
                  /\ new.walls[i].x1 = vs[i].x /\ new.walls[i].y1 = vs[i].y
                  /\ new.walls[i].x2 = vs[(i % n) + 1].x
                  /\ new.walls[i].y2 = vs[(i % n) + 1].y

====
